---- MODULE Spec2Model ----
(***************************************************************************)
(* Model of userscan: the scan cache (storepaths/cache.rs, cachemap.rs),   *)
(* the per-entry pipeline of the walk coordinator (walk.rs, scan.rs) and   *)
(* the GC-root registry (registry.rs).                                     *)
(*                                                                         *)
(* The specifications share the operators that model the code:            *)
(*   SpecCache  the Cache API: open, lookup, insert, commit                *)
(*   SpecWalk   workers running scan_entry and the walker closure          *)
(*   SpecReg    register_loop and commit of GCRoots over a link tree       *)
(*   SpecRun    main and App::run with their exit codes                    *)
(*   SpecLock   two processes and the lock on one cache file               *)
(*   SpecCodec  saving and loading the cache file                          *)
(*   SpecScan   find_paths on file contents, then scan_entry               *)
(*   SpecPriv   dropping and regaining privileges around the commits       *)
(*   SpecStats  the statistics thread                                      *)
(*   SpecPipe   all threads of spawn_threads together (FairPipe: fair)     *)
(***************************************************************************)
EXTENDS Integers, Sequences, FiniteSets, TLC

VARIABLES
    \* ---- the cache (struct Cache, storepaths/cache.rs:18-27) and its file
    cache,      \* [map, file, dirty, hits, misses, limit]
    disk,       \* contents of the cache file
    cstage,     \* "run" until Cache::commit was called, then "done"
    nops,       \* number of lookup/insert calls made (bounded by MaxOps)
    clast,      \* the last Cache call and what it returned
    stored,     \* inode -> refs most recently stored for it (insert or load)
    touched,    \* inodes inserted or hit since the cache was constructed
    \* ---- the walk (struct ProcessingContext, walk.rs:17-25)
    abort,      \* the shared AtomicBool
    quit,       \* the parallel walker saw WalkState::Quit
    slot,       \* worker -> entry in flight (after cache.lookup) or Idle
    statsq,     \* messages sent on the statistics channel: [soft, scan]
    gcq,        \* StorePaths sent on the GC channel, in order
    delivered,  \* number of entries the walker has handed out
    wlast,      \* the last closure call that returned, and what it did
    hard,       \* some closure call classified its error as hard
    walkres,    \* "running", then what ProcessingContext::walk returned
    \* ---- the registry (struct GCRoots / RegistryWorker, registry.rs)
    todo,       \* GCRoots.todo
    rx,         \* StorePaths in the GC channel not yet received
    rxopen,     \* some sender of the GC channel is still alive
    links,      \* the link tree below prefix: <<dir, name>> -> entry
    dirs,       \* directories below prefix that exist
    seen,       \* RegistryWorker.seen
    rstage,     \* "loop", "cleanup", "register", "ok", "err"
    rnext,      \* index into todo of the next StorePaths to register
    counts,     \* [cleaned, registered]
    links0,     \* the link tree as it was before commit
    \* ---- the program (main.rs) and the processes sharing a cache file
    prog,       \* position of main / App::run and what they returned
    procs,      \* process -> its Cache on the shared file, or how open ended
    flock,      \* processes holding the exclusive flock of the cache file
    \* ---- one call of Scanner::find_paths (scan.rs)
    scanin,     \* the Scanner settings and the entry it is given
    scanout,    \* what find_paths returned, then what the cache made of it
    \* ---- the credentials of the process (system.rs)
    cred,       \* [uid, euid, gid, egid] as the kernel has them
    ectx,       \* the ExecutionContext built when the program started
    pstage,     \* position of GCRoots::commit around its unprivileged part
    \* ---- the statistics collector (struct Statistics, statistics.rs) and
    \* ---- the threads of spawn_threads (walk.rs)
    stats,      \* [softerrors, total, by_ext, by_magic, detailed]
    srx,        \* StatsMsg in the statistics channel not yet received
    sproc,      \* the messages Statistics::process has been called with
    sstage,     \* "loop" while receive_loop runs, then "returned"
    pending,    \* entries of the tree the walker has not handed out yet
    hist        \* what the run has done so far: the cache file it found, and
                \* the paths whose insert returned Ok, whose insert failed and
                \* whose Scan message was sent

cacheVars == <<cache, disk, cstage, nops, clast, stored, touched>>
walkVars == <<abort, quit, slot, statsq, gcq, delivered, wlast, hard, walkres>>
regVars == <<todo, rx, rxopen, links, dirs, seen, rstage, rnext, counts, links0>>
sysVars == <<prog, procs, flock>>
scanVars == <<scanin, scanout>>
privVars == <<cred, ectx, pstage>>
pipeVars == <<stats, srx, sproc, sstage, pending, hist>>
vars == <<cacheVars, walkVars, regVars, sysVars, scanVars, privVars, pipeVars>>

----------------------------------------------------------------------------
(* Bounds of the model *)

MaxOps == 2         \* Cache calls per run in SpecCache
MaxEntries == 2     \* entries the walker hands out in SpecWalk
MaxTodo == 2        \* StorePaths sent to the registry in SpecReg
MaxMsgs == 3        \* messages sent to the statistics collector in SpecStats

----------------------------------------------------------------------------
(* Values *)

\* Option<u64>::None of DirEntry::ino()
NoIno == 0
Inodes == {1, 2}

\* dev() of the scan root (ProcessingContext.startdev) and of another mount
StartDev == "dev0"
OtherDev == "dev1"
Devs == {StartDev, OtherDev}

\* Store references `<hash>-<name>` as <<hash, name>>; A1 and A2 share a hash
RefA1 == <<"hashA", "n1">>
RefA2 == <<"hashA", "n2">>
RefB1 == <<"hashB", "n1">>
Refs == {RefA1, RefA2, RefB1}

\* ctime seconds and nanoseconds an entry may have; 5 and 261 agree mod 256
CTimes == {10, 11}
NSecs == {5, 6, 261}

\* `x as u8`
AsU8(x) == x % 256

NoMeta == [some |-> FALSE]
Meta(d) == [some |-> TRUE, dev |-> d.dev, ctime |-> d.ctime, nsec |-> d.nsec]

Ok(v) == [ok |-> TRUE, val |-> v]
Err(e) == [ok |-> FALSE, err |-> e]

\* Error values: the concrete type, its variant, and the type of an
\* anyhow context wrapped around it ("none" when there is none).
MkErr(ty, kind) == [ty |-> ty, kind |-> kind, ctx |-> "none"]
WithContext(e, c) == [e EXCEPT !.ctx = c]

----------------------------------------------------------------------------
(* StorePaths (storepaths/mod.rs) *)

StorePathsNew(dent, refs, bytes, metadata) ==
    [dent |-> dent, refs |-> refs, bytes_scanned |-> bytes,
     cached |-> FALSE, metadata |-> metadata]

SpIno(sp) ==
    IF sp.dent.ino = NoIno THEN Err(MkErr("UErr", "DentNoMetadata"))
    ELSE Ok(sp.dent.ino)

\* metadata(): the snapshot, fetched and kept on the first call
SpMetadata(sp) ==
    IF sp.metadata.some THEN [res |-> Ok(sp.metadata), sp |-> sp]
    ELSE IF sp.dent.metaok
         THEN [res |-> Ok(Meta(sp.dent)),
               sp |-> [sp EXCEPT !.metadata = Meta(sp.dent)]]
         ELSE [res |-> Err(MkErr("UErr", "DentNoMetadata")), sp |-> sp]

SpIsEmpty(sp) == sp.refs = <<>>

----------------------------------------------------------------------------
(* CacheLine, CacheMap (cachemap.rs) *)

CacheLineNew(ctime, ctime_nsec, refs) ==
    [ctime |-> ctime, ctime_nsec |-> ctime_nsec, refs |-> refs, used |-> TRUE]

EmptyMap == [i \in {} |-> 0]

MapInsert(m, k, v) == [i \in DOMAIN m \cup {k} |-> IF i = k THEN v ELSE m[i]]

MapRetainUsed(m) == [i \in {j \in DOMAIN m : m[j].used} |-> m[i]]

RECURSIVE SortedInos(_)
SortedInos(S) ==
    IF S = {} THEN <<>>
    ELSE LET lo == CHOOSE x \in S : \A y \in S : x <= y
         IN <<lo>> \o SortedInos(S \ {lo})

\* encode::to_vec (cachemap.rs:108): one tuple per line, `used` is skipped
MsgPackEncode(m) ==
    LET inos == SortedInos(DOMAIN m)
    IN [k \in 1..Len(inos) |->
            <<inos[k], m[inos[k]].ctime, m[inos[k]].ctime_nsec, m[inos[k]].refs>>]

\* decode::from_slice (cachemap.rs:90): the skipped `used` is false
MsgPackDecode(data) ==
    [i \in {data[k][1] : k \in 1..Len(data)} |->
        LET l == CHOOSE k \in 1..Len(data) : data[k][1] = i
        IN [ctime |-> data[l][2], ctime_nsec |-> data[l][3],
            refs |-> data[l][4], used |-> FALSE]]

\* Lines that repeat each other's references are what LZO shrinks most
Repeats(data) ==
    \E i, j \in 1..Len(data) : i # j /\ data[i][4] = data[j][4] /\ data[i][4] # <<>>

\* A file written by minilzo::compress: the data it inflates to, and whether
\* the data is more than ten times as long as the file (cachemap.rs:88)
LzoBlob(data, tenfold) == <<[lzo |-> TRUE, tenfold |-> tenfold, data |-> data]>>

\* The file CacheMap::save writes for a map that LZO shrinks less than tenfold
EncodeMap(m) == LzoBlob(MsgPackEncode(m), FALSE)

\* CacheMap::save (cachemap.rs:105-109): the files it can write.  How far
\* a map of repeating lines shrinks depends on how many they are; the few
\* lines of a bounded map stand for any number.
CacheMapSave(m) ==
    {LzoBlob(MsgPackEncode(m), t) :
        t \in (IF Repeats(MsgPackEncode(m)) THEN BOOLEAN ELSE {FALSE})}

\* A file that is not the output of save (truncated, overwritten)
Garbage == <<[lzo |-> FALSE, tenfold |-> FALSE, data |-> <<>>]>>

\* minilzo::decompress(&compr, compr.len() * 10) and decode::from_slice
\* both succeed
Decodable(b) == Len(b) > 0 /\ b[1].lzo /\ ~b[1].tenfold

DecodeMap(b) == MsgPackDecode(b[1].data)

\* (mutant of CacheMap::load: a decoding error is returned to the caller)
CacheMapLoadStrict(b) ==
    IF Decodable(b) THEN Ok(DecodeMap(b)) ELSE Err(MkErr("cachemap", "Decode"))

\* CacheMap::load (cachemap.rs:84-102): a file that does not decode gives
\* an empty map
CacheMapLoad(b) == IF Decodable(b) THEN Ok(DecodeMap(b)) ELSE Ok(EmptyMap)

----------------------------------------------------------------------------
(* Cache (storepaths/cache.rs) *)

CacheNew(limit) ==
    [map |-> EmptyMap, file |-> FALSE, dirty |-> FALSE,
     hits |-> 0, misses |-> 0, limit |-> limit]

\* (mutant of Cache::open: dirty is left false for an empty file)
CacheOpenFileClean(c, b) ==
    IF Len(b) > 0
    THEN LET l == CacheMapLoad(b)
         IN IF ~l.ok THEN Err(WithContext(l.err, "LoadCache"))
            ELSE Ok([c EXCEPT !.map = l.val, !.dirty = FALSE, !.file = TRUE])
    ELSE Ok([c EXCEPT !.map = EmptyMap, !.dirty = FALSE, !.file = TRUE])

\* Cache::open (storepaths/cache.rs:45-57) on a file that could be opened
\* and locked
CacheOpenFile(c, b) ==
    IF Len(b) > 0
    THEN LET l == CacheMapLoad(b)
         IN IF ~l.ok THEN Err(WithContext(l.err, "LoadCache"))
            ELSE Ok([c EXCEPT !.map = l.val, !.dirty = FALSE, !.file = TRUE])
    ELSE Ok([c EXCEPT !.map = EmptyMap, !.dirty = TRUE, !.file = TRUE])

\* (mutant of Cache::get: the sub-second byte is not compared)
CacheGetIgnoringNsec(c, d) ==
    IF d.ino = NoIno \/ d.ino \notin DOMAIN c.map \/ ~d.metaok
    THEN [some |-> FALSE, cache |-> c]
    ELSE IF c.map[d.ino].ctime = d.ctime
         THEN [some |-> TRUE, refs |-> c.map[d.ino].refs, meta |-> Meta(d),
               cache |-> [c EXCEPT !.map[d.ino].used = TRUE]]
         ELSE [some |-> FALSE, cache |-> c]

\* Cache::get
CacheGet(c, d) ==
    IF d.ino = NoIno THEN [some |-> FALSE, cache |-> c]
    ELSE IF d.ino \notin DOMAIN c.map THEN [some |-> FALSE, cache |-> c]
    ELSE IF ~d.metaok THEN [some |-> FALSE, cache |-> c]
    ELSE IF /\ c.map[d.ino].ctime = d.ctime
            /\ c.map[d.ino].ctime_nsec = AsU8(d.nsec)
         THEN [some |-> TRUE, refs |-> c.map[d.ino].refs, meta |-> Meta(d),
               cache |-> [c EXCEPT !.map[d.ino].used = TRUE]]
         ELSE [some |-> FALSE, cache |-> c]

\* (mutant of Cache::lookup: a directory is looked up like a file)
CacheLookupDirThroughGet(c, d) ==
    LET g == CacheGet(c, d)
    IN IF g.some
       THEN [kind |-> IF d.ftype = "dir" THEN "Dir" ELSE "Hit",
             cache |-> [g.cache EXCEPT !.hits = @ + 1],
             sp |-> [dent |-> d, refs |-> g.refs, cached |-> TRUE,
                     bytes_scanned |-> 0, metadata |-> g.meta]]
       ELSE IF d.ftype = "dir"
       THEN [kind |-> "Dir", cache |-> [g.cache EXCEPT !.misses = @ + 1],
             sp |-> [dent |-> d, refs |-> <<>>, cached |-> TRUE,
                     bytes_scanned |-> 0, metadata |-> NoMeta]]
       ELSE [kind |-> "Miss",
             cache |-> [g.cache EXCEPT !.misses = @ + 1],
             dent |-> d]

\* Cache::lookup
CacheLookup(c, d) ==
    IF d.ftype = "dir"
    THEN [kind |-> "Dir", cache |-> c,
          sp |-> [dent |-> d, refs |-> <<>>, cached |-> TRUE,
                  bytes_scanned |-> 0, metadata |-> NoMeta]]
    ELSE LET g == CacheGet(c, d)
         IN IF g.some
            THEN [kind |-> "Hit",
                  cache |-> [g.cache EXCEPT !.hits = @ + 1],
                  sp |-> [dent |-> d, refs |-> g.refs, cached |-> TRUE,
                          bytes_scanned |-> 0, metadata |-> g.meta]]
            ELSE [kind |-> "Miss",
                  cache |-> [g.cache EXCEPT !.misses = @ + 1],
                  dent |-> d]

\* (mutant of Cache::insert: the capacity is not checked)
CacheInsertUnlimited(c, sp0) ==
    IF sp0.cached THEN [res |-> Ok("unit"), cache |-> c, sp |-> sp0]
    ELSE LET m == SpMetadata(sp0)
             sp == m.sp
         IN IF ~m.res.ok THEN [res |-> m.res, cache |-> c, sp |-> sp]
            ELSE IF ~SpIno(sp).ok
            THEN [res |-> SpIno(sp), cache |-> c, sp |-> sp]
            ELSE [res |-> Ok("unit"), sp |-> sp,
                  cache |-> [c EXCEPT
                     !.map = MapInsert(@, SpIno(sp).val,
                                CacheLineNew(m.res.val.ctime,
                                             AsU8(m.res.val.nsec), sp.refs)),
                     !.dirty = TRUE]]

\* (mutant of Cache::insert: the capacity is checked before sp.cached)
CacheInsertCapacityFirst(c, sp0) ==
    IF c.limit > 0 /\ Cardinality(DOMAIN c.map) >= c.limit
    THEN [res |-> Err(MkErr("UErr", "CacheFull")), cache |-> c, sp |-> sp0]
    ELSE IF sp0.cached THEN [res |-> Ok("unit"), cache |-> c, sp |-> sp0]
    ELSE LET m == SpMetadata(sp0)
             sp == m.sp
         IN IF ~m.res.ok THEN [res |-> m.res, cache |-> c, sp |-> sp]
            ELSE IF ~SpIno(sp).ok
            THEN [res |-> SpIno(sp), cache |-> c, sp |-> sp]
            ELSE [res |-> Ok("unit"), sp |-> sp,
                  cache |-> [c EXCEPT
                     !.map = MapInsert(@, SpIno(sp).val,
                                CacheLineNew(m.res.val.ctime,
                                             AsU8(m.res.val.nsec), sp.refs)),
                     !.dirty = TRUE]]

\* Cache::insert
CacheInsert(c, sp0) ==
    IF sp0.cached THEN [res |-> Ok("unit"), cache |-> c, sp |-> sp0]
    ELSE LET m == SpMetadata(sp0)
             sp == m.sp
         IN IF ~m.res.ok THEN [res |-> m.res, cache |-> c, sp |-> sp]
            ELSE IF c.limit > 0 /\ Cardinality(DOMAIN c.map) >= c.limit
            THEN [res |-> Err(MkErr("UErr", "CacheFull")), cache |-> c, sp |-> sp]
            ELSE IF ~SpIno(sp).ok
            THEN [res |-> SpIno(sp), cache |-> c, sp |-> sp]
            ELSE [res |-> Ok("unit"), sp |-> sp,
                  cache |-> [c EXCEPT
                     !.map = MapInsert(@, SpIno(sp).val,
                                CacheLineNew(m.res.val.ctime,
                                             AsU8(m.res.val.nsec), sp.refs)),
                     !.dirty = TRUE]]

\* Cache::commit up to the save: the cache after it, and whether the map
\* is written to the file
CacheCommit(c) ==
    IF c.file
    THEN IF ~c.dirty
         THEN [cache |-> c, save |-> FALSE]
         ELSE [cache |-> [c EXCEPT !.dirty = FALSE, !.map = MapRetainUsed(@)],
               save |-> TRUE]
    ELSE [cache |-> c, save |-> FALSE]

----------------------------------------------------------------------------
(* Directory entries (ignore::DirEntry): file type, inode number if any,   *)
(* whether metadata() succeeds and what it returns, and the error the      *)
(* iterator attached ("none", "partial" or "hard" for a non-partial one).  *)

MkDent(ftype, ino, metaok, dev, ctime, nsec, err) ==
    [ftype |-> ftype, ino |-> ino, metaok |-> metaok, dev |-> dev,
     ctime |-> ctime, nsec |-> nsec, err |-> err]

NoDent == MkDent("none", NoIno, FALSE, StartDev, 10, 5, "none")

\* Entries SpecCache looks up: one directory, and files with and without an
\* inode number whose metadata is readable (any ctime) or not
CacheDents ==
    {MkDent("dir", 1, TRUE, StartDev, 10, 5, "none")}
    \cup {MkDent("file", i, TRUE, StartDev, ct, ns, "none") :
            i \in Inodes \cup {NoIno}, ct \in CTimes, ns \in NSecs}
    \cup {MkDent("file", i, FALSE, StartDev, 10, 5, "none") :
            i \in Inodes \cup {NoIno}}

RefLists == {<<>>, <<RefA1>>}

\* StorePaths as Scanner::find_paths builds them (scan.rs:188): the metadata
\* read during the scan is attached
ScannedSPs ==
    {StorePathsNew(d, r, 1, Meta(d)) :
        d \in {e \in CacheDents : e.ftype = "file" /\ e.metaok}, r \in RefLists}

Limits == {0, 1, 2}

\* Cache files found on disk: empty, undecodable, two saved maps, and a
\* saved map of repeating lines that LZO shrank more than tenfold
DiskInit ==
    {<<>>, Garbage,
     LzoBlob(MsgPackEncode(
                MapInsert(MapInsert(EmptyMap, 1, CacheLineNew(10, 5, <<RefA1>>)),
                          2, CacheLineNew(10, 5, <<RefA1>>))), TRUE),
     EncodeMap(MapInsert(EmptyMap, 1, CacheLineNew(10, 5, <<RefA1>>))),
     EncodeMap(MapInsert(MapInsert(EmptyMap, 1, CacheLineNew(10, 5, <<RefA1>>)),
                         2, CacheLineNew(11, 6, <<>>)))}

NoStored == [i \in Inodes |-> <<>>]

----------------------------------------------------------------------------
(* SpecCache: the Cache API *)

WalkIdle ==
    /\ abort = FALSE /\ quit = FALSE /\ slot = <<>>
    /\ statsq = [soft |-> 0, scan |-> 0]
    /\ gcq = <<>> /\ delivered = 0 /\ wlast = [op |-> "none"] /\ hard = FALSE
    /\ walkres = "running"

RegIdle ==
    /\ todo = <<>> /\ rx = <<>> /\ rxopen = FALSE /\ links = <<>> /\ dirs = {}
    /\ seen = {} /\ rstage = "loop" /\ rnext = 1
    /\ counts = [cleaned |-> 0, registered |-> 0] /\ links0 = <<>>

SysIdle == prog = [stage |-> "off"] /\ procs = <<>> /\ flock = {}
ScanIdle == scanin = [op |-> "none"] /\ scanout = [op |-> "none"]
PrivIdle == cred = <<>> /\ ectx = <<>> /\ pstage = [at |-> "off"]
PipeIdle ==
    /\ stats = <<>> /\ srx = <<>> /\ sproc = <<>> /\ sstage = "off"
    /\ pending = {} /\ hist = <<>>

CacheIdle ==
    /\ cache = CacheNew(0) /\ disk = <<>> /\ cstage = "run" /\ nops = 0
    /\ clast = [op |-> "none"] /\ stored = NoStored /\ touched = {}

InitCache ==
    /\ \E l \in Limits : cache = CacheNew(l)
    /\ disk \in DiskInit
    /\ cstage = "run" /\ nops = 0 /\ clast = [op |-> "none"]
    /\ stored = NoStored /\ touched = {}
    /\ WalkIdle /\ RegIdle /\ SysIdle /\ ScanIdle /\ PrivIdle /\ PipeIdle

\* Cache::open (storepaths/cache.rs:37-58), the file opened and locked
\* Cache::lookup and Cache::insert are called with any entry; Cache::commit
\* once, at the end of the run
COpen ==
    /\ cstage = "run" /\ ~cache.file /\ nops = 0
    /\ LET r == CacheOpenFile(cache, disk)
       IN /\ cache' = IF r.ok THEN r.val ELSE cache
          /\ cstage' = IF r.ok THEN "run" ELSE "failed"
          /\ clast' = [op |-> "open", ok |-> r.ok]
    /\ stored' = [i \in Inodes |->
                    IF i \in DOMAIN cache'.map THEN cache'.map[i].refs ELSE <<>>]
    /\ UNCHANGED <<disk, nops, touched, walkVars, regVars, sysVars, scanVars, privVars, pipeVars>>

CLookup ==
    /\ cstage = "run" /\ nops < MaxOps
    /\ \E d \in CacheDents :
        LET r == CacheLookup(cache, d)
        IN /\ cache' = r.cache
           /\ clast' = [op |-> "lookup", dent |-> d, kind |-> r.kind,
                        sp |-> IF r.kind = "Miss" THEN <<>> ELSE r.sp]
           /\ touched' = IF r.kind = "Hit" THEN touched \cup {d.ino} ELSE touched
    /\ nops' = nops + 1
    /\ UNCHANGED <<disk, cstage, stored, walkVars, regVars, sysVars, scanVars, privVars, pipeVars>>

CInsert ==
    /\ cstage = "run" /\ nops < MaxOps
    /\ \E sp \in ScannedSPs \cup (IF clast.op = "lookup" /\ clast.kind # "Miss"
                                  THEN {clast.sp} ELSE {}) :
        LET r == CacheInsert(cache, sp)
            done == r.res.ok /\ ~sp.cached
        IN /\ cache' = r.cache
           /\ clast' = [op |-> "insert", sp |-> sp, res |-> r.res]
           /\ touched' = IF done THEN touched \cup {sp.dent.ino} ELSE touched
           /\ stored' = IF done THEN [stored EXCEPT ![sp.dent.ino] = sp.refs]
                        ELSE stored
    /\ nops' = nops + 1
    /\ UNCHANGED <<disk, cstage, walkVars, regVars, sysVars, scanVars, privVars, pipeVars>>

\* Cache::commit (storepaths/cache.rs:60-74); CacheMap::save may fail after
\* it has truncated the file
CCommit ==
    /\ cstage = "run"
    /\ LET r == CacheCommit(cache)
       IN /\ cache' = r.cache
          /\ IF r.save
             THEN \E saved \in BOOLEAN :
                    /\ clast' = [op |-> "commit", ok |-> saved]
                    /\ IF saved THEN disk' \in CacheMapSave(r.cache.map)
                       ELSE disk' \in {disk, <<>>}
             ELSE clast' = [op |-> "commit", ok |-> TRUE] /\ disk' = disk
    /\ cstage' = "done"
    /\ UNCHANGED <<nops, stored, touched, walkVars, regVars, sysVars, scanVars, privVars, pipeVars>>

NextCache == COpen \/ CLookup \/ CInsert \/ CCommit

SpecCache == InitCache /\ [][NextCache]_vars

----------------------------------------------------------------------------
(* Claims about the cache *)

\* C3 (as claimed): after Cache.commit() returned Ok on a cache with a file,
\* every line left in the map, and every line in the file, belongs to an
\* inode that was inserted or hit in this run.
C3_CommitKeepsOnlyTouched ==
    (cstage = "done" /\ clast.op = "commit" /\ clast.ok /\ cache.file) =>
        /\ DOMAIN cache.map \subseteq touched
        /\ Decodable(disk) => DOMAIN DecodeMap(disk) \subseteq touched

\* When an entry hits (storepaths/cache.rs:79-83, read independently)
HitCond(m, d) ==
    /\ d.ino # NoIno
    /\ d.ino \in DOMAIN m
    /\ d.metaok
    /\ m[d.ino].ctime = d.ctime
    /\ m[d.ino].ctime_nsec = d.nsec % 256

\* C4: a lookup of a non-directory entry is a Hit exactly when the map holds
\* a line for its inode whose ctime and ctime_nsec byte equal the entry's
\* metadata; the Hit carries the refs last stored for the inode, cached and
\* with no bytes scanned; everything else is a Miss.
C4_LookupHitIff ==
    [][(clast'.op = "lookup" /\ nops' = nops + 1 /\ clast'.dent.ftype # "dir") =>
        LET d == clast'.dent
        IN /\ clast'.kind \in {"Hit", "Miss"}
           /\ clast'.kind = "Hit" <=> HitCond(cache.map, d)
           /\ clast'.kind = "Hit" =>
                /\ clast'.sp.refs = stored[d.ino]
                /\ clast'.sp.cached
                /\ clast'.sp.bytes_scanned = 0]_vars

\* C4 witness: a Hit on an entry whose nanoseconds exceed one byte
C4_Witness ==
    /\ clast.op = "lookup" /\ clast.kind = "Hit"
    /\ clast.dent.nsec > 255 /\ clast.sp.refs # <<>>

IsCacheFull(res) == ~res.ok /\ res.err.ty = "UErr" /\ res.err.kind = "CacheFull"

\* C5: inserting a non-cached StorePaths fails with CacheFull whenever
\* limit > 0 and the map holds at least limit entries, and then neither the
\* map nor the dirty flag changes; with limit = 0 it never fails so.
C5_InsertCacheFull ==
    [][(clast'.op = "insert" /\ nops' = nops + 1 /\ ~clast'.sp.cached) =>
        /\ (cache.limit > 0 /\ Cardinality(DOMAIN cache.map) >= cache.limit) =>
              /\ IsCacheFull(clast'.res)
              /\ cache'.map = cache.map
              /\ cache'.dirty = cache.dirty
        /\ cache.limit = 0 => ~IsCacheFull(clast'.res)]_vars

\* C5 witness: an insert failed with CacheFull on a cache that holds lines
C5_Witness ==
    /\ clast.op = "insert" /\ ~clast.sp.cached /\ IsCacheFull(clast.res)
    /\ cache.limit = 2 /\ Cardinality(DOMAIN cache.map) = 2

\* Cache::open runs in this step
Opens == clast.op = "none" /\ clast'.op = "open"

\* Cache::commit runs in this step on a cache with a file
Commits == cstage = "run" /\ cstage' = "done" /\ cache.file

\* C13: on a non-empty file that does not decompress or decode,
\* CacheMap::load returns Ok with an empty map, and Cache::open succeeds
\* with that map.
C13_BrokenFileLoadsEmpty ==
    [][(Opens /\ Len(disk) > 0 /\ ~Decodable(disk)) =>
        /\ CacheMapLoad(disk) = Ok(EmptyMap)
        /\ clast'.ok /\ cstage' = "run"
        /\ cache'.file /\ cache'.map = EmptyMap]_vars

\* C13 witness: the cache is open on the undecodable file
C13_Witness ==
    /\ clast.op = "open" /\ clast.ok /\ cache.file
    /\ disk = Garbage /\ cache.map = EmptyMap

\* C14 (as claimed): the commit that follows an open on an undecodable file
\* writes an encoding of the current map to the file, whatever lookups and
\* inserts came in between.
C14_CommitRewritesBrokenFile ==
    [][(Commits /\ Len(disk) > 0 /\ ~Decodable(disk) /\ clast'.ok)
        => disk' \in CacheMapSave(cache'.map)]_vars

\* C15: open of an empty file gives an empty map and dirty = true, so that
\* the next commit writes an encoding of the map even without an insert;
\* open of a non-empty file gives dirty = false and no line is used.
C15_OpenSetsDirty ==
    /\ [][(Opens /\ clast'.ok) =>
            /\ Len(disk) = 0 => (cache'.dirty /\ cache'.map = EmptyMap)
            /\ Len(disk) > 0 =>
                    /\ ~cache'.dirty
                    /\ \A i \in DOMAIN cache'.map : ~cache'.map[i].used]_vars
    /\ [][(Commits /\ Len(disk) = 0 /\ clast'.ok)
            => (Len(disk') > 0 /\ disk' \in CacheMapSave(cache'.map))]_vars

\* C15 witness: an empty file was opened and committed without any call in
\* between, and now holds the encoding of the empty map
C15_Witness ==
    /\ cstage = "done" /\ clast.op = "commit" /\ clast.ok /\ nops = 0
    /\ cache.file /\ disk = EncodeMap(EmptyMap)

\* C35: Cache.insert of a StorePaths with cached = true, as a Hit or Dir
\* lookup returns it, gives Ok and leaves the whole cache (map, dirty flag,
\* counters) as it was, also when the map has reached the capacity limit.
C35_CachedInsertNoOp ==
    [][(nops' # nops /\ clast'.op = "insert" /\ clast'.sp.cached) =>
        (cache' = cache /\ clast'.res = Ok("unit"))]_vars

\* C35 witness: a Hit on a cache that is at its limit was inserted again
C35_Witness ==
    /\ clast.op = "insert" /\ clast.sp.cached /\ clast.res.ok
    /\ clast.sp.dent.ftype = "file"
    /\ cache.limit > 0 /\ Cardinality(DOMAIN cache.map) >= cache.limit

\* C36: Cache.lookup of a directory returns Dir with no references,
\* cached = true and bytes_scanned = 0, and leaves the cache as it was: no
\* used flag is set and neither hits nor misses is counted.
C36_DirLookupTouchesNothing ==
    [][(nops' # nops /\ clast'.op = "lookup" /\ clast'.dent.ftype = "dir") =>
        /\ cache' = cache
        /\ clast'.kind = "Dir"
        /\ clast'.sp.refs = <<>> /\ clast'.sp.cached
        /\ clast'.sp.bytes_scanned = 0]_vars

\* C36 witness: the inode of the directory has a line in the map that its
\* ctime matches, and the line is still unused after the lookup
C36_Witness ==
    /\ clast.op = "lookup" /\ clast.kind = "Dir"
    /\ clast.dent.ino \in DOMAIN cache.map
    /\ cache.map[clast.dent.ino].ctime = clast.dent.ctime
    /\ ~cache.map[clast.dent.ino].used
    /\ cache.hits = 0 /\ cache.misses = 0

\* C39 (as claimed): with a capacity limit L > 0 the map never holds more
\* than L lines, in any state from construction and open on and whatever
\* lookups and inserts have run.
C39_MapWithinLimit ==
    cache.limit > 0 => Cardinality(DOMAIN cache.map) <= cache.limit

\* C40 (as claimed): with a capacity limit L > 0, an insert does not fail
\* with CacheFull as long as the inodes whose lines were used in this run
\* (inserted or hit), the one being inserted included, are at most L;
\* lines that were only loaded from the file do not count, nor does an
\* insert for an inode that already has a line.
C40_UntouchedLinesDontCount ==
    [][(/\ nops' # nops /\ clast'.op = "insert" /\ ~clast'.sp.cached
        /\ cache.limit > 0
        /\ Cardinality(touched \cup {clast'.sp.dent.ino}) <= cache.limit)
            => ~IsCacheFull(clast'.res)]_vars

----------------------------------------------------------------------------
(* SpecCodec: CacheMap::save followed by CacheMap::load *)

\* Maps to save: any lines for the inodes, used or not
CodecLines ==
    {[ctime |-> ct, ctime_nsec |-> ns, refs |-> r, used |-> u] :
        ct \in CTimes, ns \in {5, 6}, r \in RefLists, u \in BOOLEAN}

CodecMaps ==
    UNION {[S -> CodecLines] : S \in SUBSET Inodes}

InitCodec ==
    /\ \E m \in CodecMaps : cache = [CacheNew(0) EXCEPT !.map = m, !.file = TRUE]
    /\ disk = <<>> /\ cstage = "run" /\ nops = 0 /\ clast = [op |-> "none"]
    /\ stored = NoStored /\ touched = {}
    /\ WalkIdle /\ RegIdle /\ SysIdle /\ ScanIdle /\ PrivIdle /\ PipeIdle

\* CacheMap::save
KSave ==
    /\ clast.op = "none"
    /\ disk' \in CacheMapSave(cache.map)
    /\ clast' = [op |-> "save"]
    /\ UNCHANGED <<cache, cstage, nops, stored, touched, walkVars, regVars,
                   sysVars, scanVars, privVars, pipeVars>>

\* CacheMap::load
KLoad ==
    /\ clast.op = "save"
    /\ clast' = [op |-> "load", res |-> CacheMapLoad(disk)]
    /\ UNCHANGED <<cache, disk, cstage, nops, stored, touched, walkVars,
                   regVars, sysVars, scanVars, privVars, pipeVars>>

NextCodec == KSave \/ KLoad

SpecCodec == InitCodec /\ [][NextCodec]_vars

\* C16 (as claimed): save followed by load gives a map with the same keys
\* and, for each key, the same ctime, ctime_nsec and refs, with used false
\* on every line whatever it was when saved.
C16_SaveLoadRoundTrip ==
    clast.op = "load" =>
        /\ clast.res.ok
        /\ DOMAIN clast.res.val = DOMAIN cache.map
        /\ \A i \in DOMAIN cache.map :
            /\ i \in DOMAIN clast.res.val
            /\ clast.res.val[i].ctime = cache.map[i].ctime
            /\ clast.res.val[i].ctime_nsec = cache.map[i].ctime_nsec
            /\ clast.res.val[i].refs = cache.map[i].refs
            /\ ~clast.res.val[i].used

----------------------------------------------------------------------------
(* Scanner (scan.rs) as the walk sees it *)

\* I/O failures of a scan (Mmap::open_path, File::open, fs::read_link)
ScanIoKinds == {"PermissionDenied", "NotFound"}

\* What Scanner::find_paths(d) can return.  A non-partial entry error is
\* turned into a message (scan.rs:169-172); a file and a symlink are
\* scanned (scan.rs:150-160); an entry that is neither falls through
\* (scan.rs:181).  A failure inside scan_inode
\* (scan.rs:177) reaches the walk either as its cause below the path that
\* chain_err adds, or inside the scanner's own error type, which the
\* closure's downcasts do not open.
FindPaths(d) ==
    IF d.err = "hard" THEN {Err(MkErr("Msg", "dent error"))}
    ELSE IF d.ftype \in {"file", "symlink"}
    THEN IF d.metaok
         THEN {Ok(StorePathsNew(d, r, 1, Meta(d))) : r \in RefLists}
              \cup {Err(WithContext(MkErr("io", k), "Msg")) : k \in ScanIoKinds}
              \cup {Err(MkErr("UErr", "IO"))}
         ELSE {Err(WithContext(MkErr("ignore", "Io"), "Msg")),
               Err(MkErr("UErr", "Traverse"))}
    ELSE {Err(MkErr("UErr", "WalkContinue"))}

----------------------------------------------------------------------------
(* ProcessingContext (walk.rs) *)

Out(c, soft, scan, gc, res, step) ==
    [cache |-> c, soft |-> soft, scan |-> scan, gc |-> gc, res |-> res,
     step |-> step]

\* (mutant of scan_entry: the device of the entry is not compared)
ScanEntryCrossingDevices(c, lk, sr) ==
    LET got == IF lk.kind = "Miss" THEN sr ELSE Ok(lk.sp)
    IN IF ~got.ok THEN Out(c, 0, 0, <<>>, Err(got.err), "scan")
       ELSE IF got.val.dent.err = "hard"
       THEN Out(c, 0, 0, <<>>, Err(MkErr("ignore", "hard")), "gate")
       ELSE LET soft == IF got.val.dent.err = "partial" THEN 1 ELSE 0
                m == SpMetadata(got.val)
            IN IF ~m.res.ok THEN Out(c, soft, 0, <<>>, Err(m.res.err), "meta")
               ELSE LET ins == CacheInsert(c, m.sp)
                    IN IF ~ins.res.ok
                       THEN Out(c, soft, 0, <<>>,
                                Err(WithContext(ins.res.err, "WalkAbort")), "insert")
                       ELSE Out(ins.cache, soft, 1,
                                IF SpIsEmpty(ins.sp) THEN <<>> ELSE <<ins.sp>>,
                                Ok("Continue"), "end")

\* (mutant of scan_entry: the scanner is asked whatever the lookup gave)
ScanEntryRescanning(c, lk, sr) ==
    LET got == sr
    IN IF ~got.ok THEN Out(c, 0, 0, <<>>, Err(got.err), "scan")
       ELSE IF got.val.dent.err = "hard"
       THEN Out(c, 0, 0, <<>>, Err(MkErr("ignore", "hard")), "gate")
       ELSE LET soft == IF got.val.dent.err = "partial" THEN 1 ELSE 0
                m == SpMetadata(got.val)
            IN IF ~m.res.ok THEN Out(c, soft, 0, <<>>, Err(m.res.err), "meta")
               ELSE IF m.res.val.dev # StartDev
               THEN Out(c, soft, 0, <<>>, Ok("Skip"), "dev")
               ELSE LET ins == CacheInsert(c, m.sp)
                    IN IF ~ins.res.ok
                       THEN Out(c, soft, 0, <<>>,
                                Err(WithContext(ins.res.err, "WalkAbort")), "insert")
                       ELSE Out(ins.cache, soft, 1,
                                IF SpIsEmpty(ins.sp) THEN <<>> ELSE <<ins.sp>>,
                                Ok("Continue"), "end")

\* scan_entry after cache.lookup returned lk (walk.rs:44-65); sr is what
\* the scanner returns on a Miss.  Gives the cache afterwards, the number of
\* SoftError and Scan messages sent, the StorePaths sent to the GC channel,
\* the result and the step that produced it.
ScanEntry(c, lk, sr) ==
    LET got == IF lk.kind = "Miss" THEN sr ELSE Ok(lk.sp)
    IN IF ~got.ok THEN Out(c, 0, 0, <<>>, Err(got.err), "scan")
       ELSE IF got.val.dent.err = "hard"
       THEN Out(c, 0, 0, <<>>, Err(MkErr("ignore", "hard")), "gate")
       ELSE LET soft == IF got.val.dent.err = "partial" THEN 1 ELSE 0
                m == SpMetadata(got.val)
            IN IF ~m.res.ok THEN Out(c, soft, 0, <<>>, Err(m.res.err), "meta")
               ELSE IF m.res.val.dev # StartDev
               THEN Out(c, soft, 0, <<>>, Ok("Skip"), "dev")
               ELSE LET ins == CacheInsert(c, m.sp)
                    IN IF ~ins.res.ok
                       THEN Out(c, soft, 0, <<>>,
                                Err(WithContext(ins.res.err, "WalkAbort")), "insert")
                       ELSE Out(ins.cache, soft, 1,
                                IF SpIsEmpty(ins.sp) THEN <<>> ELSE <<ins.sp>>,
                                Ok("Continue"), "end")

\* err.downcast_ref::<UErr>(): the context if it is a UErr, else the error
DowncastUErr(e) ==
    IF e.ctx = "WalkAbort" THEN "WalkAbort"
    ELSE IF e.ty = "UErr" THEN e.kind ELSE "none"

\* (mutant of the closure: PermissionDenied is handled like other I/O errors)
ClosureSoftOnPermissionDenied(res) ==
    IF res.ok THEN [ws |-> res.val, abort |-> FALSE, soft |-> 0]
    ELSE IF DowncastUErr(res.err) = "WalkAbort" \/ res.err.ty = "ignore"
    THEN [ws |-> "Quit", abort |-> TRUE, soft |-> 0]
    ELSE [ws |-> "Continue", abort |-> FALSE, soft |-> 1]

\* (mutant of the closure: Quit on PermissionDenied without setting abort)
ClosureQuitWithoutAbort(res) ==
    IF res.ok THEN [ws |-> res.val, abort |-> FALSE, soft |-> 0]
    ELSE IF DowncastUErr(res.err) = "WalkAbort" \/ res.err.ty = "ignore"
    THEN [ws |-> "Quit", abort |-> TRUE, soft |-> 0]
    ELSE IF res.err.ty = "io" /\ res.err.kind = "PermissionDenied"
    THEN [ws |-> "Quit", abort |-> FALSE, soft |-> 0]
    ELSE [ws |-> "Continue", abort |-> FALSE, soft |-> 1]

\* The walker closure's unwrap_or_else (walk.rs:74-93): the WalkState it
\* returns, whether it stores true to abort, and the SoftErrors it sends
Closure(res) ==
    IF res.ok THEN [ws |-> res.val, abort |-> FALSE, soft |-> 0]
    ELSE IF DowncastUErr(res.err) = "WalkAbort"
    THEN [ws |-> "Quit", abort |-> TRUE, soft |-> 0]
    ELSE IF res.err.ty = "ignore"
    THEN [ws |-> "Quit", abort |-> TRUE, soft |-> 0]
    ELSE IF res.err.ty = "io" /\ res.err.kind = "PermissionDenied"
    THEN [ws |-> "Quit", abort |-> TRUE, soft |-> 0]
    ELSE [ws |-> "Continue", abort |-> FALSE, soft |-> 1]

\* ProcessingContext::walk after walker.run returned (walk.rs:96-100)
WalkResult(a) == IF a THEN "WalkAbort" ELSE "Ok"

----------------------------------------------------------------------------
(* SpecWalk: two workers of the parallel walker *)

Workers == {"w1", "w2"}
Idle == [kind |-> "Idle"]

\* Entries the walker hands out: directories and files, with and without
\* inode number, readable metadata, on either device, with any entry error
WalkDents ==
    {MkDent(ft, i, mo, dv, 10, 5, e) :
        ft \in {"dir", "file"}, i \in {NoIno, 1}, mo \in BOOLEAN,
        dv \in Devs, e \in {"none", "partial", "hard"}}

\* Caches the walk starts with (App::cache, main.rs:137-146): without a
\* file, or opened from a file that holds a current or an outdated line for
\* inode 1, with and without a limit
WalkCaches ==
    {CacheNew(0)}
    \cup {CacheOpenFile(CacheNew(l), b).val :
            l \in {0, 1},
            b \in {EncodeMap(MapInsert(EmptyMap, 1, CacheLineNew(10, 5, <<RefA1>>))),
                   EncodeMap(MapInsert(EmptyMap, 1, CacheLineNew(11, 5, <<>>)))}}

InitWalk ==
    /\ cache \in WalkCaches
    /\ disk = <<>> /\ cstage = "run" /\ nops = 0 /\ clast = [op |-> "none"]
    /\ stored = NoStored /\ touched = {}
    /\ abort = FALSE /\ quit = FALSE
    /\ slot = [w \in Workers |-> Idle]
    /\ statsq = [soft |-> 0, scan |-> 0]
    /\ gcq = <<>> /\ delivered = 0 /\ wlast = [op |-> "none"] /\ hard = FALSE
    /\ walkres = "running"
    /\ RegIdle /\ SysIdle /\ ScanIdle /\ PrivIdle /\ PipeIdle

\* A worker takes the next entry and runs cache.lookup (walk.rs:44)
WTake(w) ==
    /\ walkres = "running" /\ ~quit /\ delivered < MaxEntries
    /\ slot[w] = Idle
    /\ \E d \in WalkDents :
        LET lk == CacheLookup(cache, d)
        IN /\ cache' = lk.cache
           /\ slot' = [slot EXCEPT ![w] = [kind |-> lk.kind, dent |-> d,
                          sp |-> IF lk.kind = "Miss" THEN <<>> ELSE lk.sp]]
    /\ delivered' = delivered + 1
    /\ UNCHANGED <<disk, cstage, nops, clast, stored, touched, abort, quit,
                   statsq, gcq, wlast, hard, walkres, regVars, sysVars, scanVars, privVars, pipeVars>>

\* The worker runs the rest of scan_entry and the closure returns
WFinish(w) ==
    /\ slot[w] # Idle
    /\ \E sr \in FindPaths(slot[w].dent) :
        LET o == ScanEntry(cache, slot[w], sr)
            cl == Closure(o.res)
        IN /\ cache' = o.cache
           /\ statsq' = [soft |-> statsq.soft + o.soft + cl.soft,
                         scan |-> statsq.scan + o.scan]
           /\ gcq' = gcq \o o.gc
           /\ abort' = (abort \/ cl.abort)
           /\ quit' = (quit \/ cl.ws = "Quit")
           /\ hard' = (hard \/ cl.ws = "Quit")
           /\ wlast' = [op |-> "entry", w |-> w, res |-> o.res, step |-> o.step,
                        ws |-> cl.ws, esoft |-> o.soft, csoft |-> cl.soft]
    /\ slot' = [slot EXCEPT ![w] = Idle]
    /\ UNCHANGED <<disk, cstage, nops, clast, stored, touched, delivered,
                   walkres, regVars, sysVars, scanVars, privVars, pipeVars>>

\* The iterator hands the closure an ignore::Error instead of an entry
WTraverseErr(w) ==
    /\ walkres = "running" /\ ~quit /\ delivered < MaxEntries
    /\ slot[w] = Idle
    /\ LET res == Err(MkErr("ignore", "Io"))
           cl == Closure(res)
       IN /\ statsq' = [statsq EXCEPT !.soft = @ + cl.soft]
          /\ abort' = (abort \/ cl.abort)
          /\ quit' = (quit \/ cl.ws = "Quit")
          /\ hard' = (hard \/ cl.ws = "Quit")
          /\ wlast' = [op |-> "entry", w |-> w, res |-> res, step |-> "iter",
                       ws |-> cl.ws, esoft |-> 0, csoft |-> cl.soft]
    /\ delivered' = delivered + 1
    /\ UNCHANGED <<cacheVars, slot, gcq, walkres, regVars, sysVars, scanVars, privVars, pipeVars>>

\* walker.run returns once every worker is done; walk reads abort
WJoin ==
    /\ walkres = "running"
    /\ \A w \in Workers : slot[w] = Idle
    /\ walkres' = WalkResult(abort)
    /\ UNCHANGED <<cacheVars, abort, quit, slot, statsq, gcq, delivered, wlast,
                   hard, regVars, sysVars, scanVars, privVars, pipeVars>>

NextWalk ==
    \/ \E w \in Workers : WTake(w)
    \/ \E w \in Workers : WFinish(w)
    \/ \E w \in Workers : WTraverseErr(w)
    \/ WJoin

SpecWalk == InitWalk /\ [][NextWalk]_vars

----------------------------------------------------------------------------
(* Claims about the walk *)

\* Worker w returns from the closure in this step
Returns(w) == slot[w] # Idle /\ slot'[w] = Idle

\* Some closure invocation ends in this step (entry or iterator error)
ClosureReturns ==
    \/ \E w \in Workers : Returns(w)
    \/ delivered' # delivered /\ slot' = slot

WalkAbortKinded(e) ==
    e.ctx = "WalkAbort" \/ (e.ty = "UErr" /\ e.kind = "WalkAbort")

\* C7: the closure answers a WalkAbort-kinded error (a CacheFull from the
\* cache insert included), an ignore::Error and an io::Error of kind
\* PermissionDenied by setting abort and returning Quit, without sending a
\* SoftError.
C7_HardErrorsAbort ==
    [][(ClosureReturns /\ ~wlast'.res.ok) =>
        ((\/ WalkAbortKinded(wlast'.res.err)
          \/ wlast'.step = "insert" /\ wlast'.res.err.kind = "CacheFull"
          \/ wlast'.res.err.ty = "ignore"
          \/ wlast'.res.err.ty = "io" /\ wlast'.res.err.kind = "PermissionDenied")
         => abort' /\ wlast'.ws = "Quit" /\ wlast'.csoft = 0)]_vars

\* C7 witness: the cache insert failed with CacheFull and the walk aborts
C7_Witness ==
    /\ wlast.op = "entry" /\ wlast.step = "insert" /\ ~wlast.res.ok
    /\ wlast.res.err.kind = "CacheFull" /\ wlast.ws = "Quit" /\ abort

\* C8: a DentNoMetadata error raised at any step of an entry, the metadata
\* read and the cache insert included, is soft: the closure sends one
\* SoftError, leaves abort as it is and returns Continue.
C8_DentNoMetadataSoft ==
    [][(ClosureReturns /\ ~wlast'.res.ok
        /\ wlast'.res.err.ty = "UErr" /\ wlast'.res.err.kind = "DentNoMetadata")
       => wlast'.csoft = 1 /\ abort' = abort /\ wlast'.ws = "Continue"]_vars

\* C9: an entry with a partial error gets one SoftError from scan_entry and
\* its processing goes on; an entry with a non-partial error is a hard
\* error (abort set, Quit) whether the cache or the scanner resolved it.
C9_PartialSoftElseHard ==
    [][\A w \in Workers : Returns(w) =>
        /\ (slot[w].dent.err = "partial" /\ wlast'.step # "scan") =>
              wlast'.esoft = 1 /\ wlast'.step # "gate"
        /\ slot[w].dent.err = "hard" => abort' /\ wlast'.ws = "Quit"]_vars

\* C10: walk returns WalkAbort exactly if some closure invocation treated
\* an error as hard (returned Quit); abort is set by nothing else, is never
\* reset, and is read only when no worker holds an entry.
C10_AbortIffHard ==
    /\ [](abort <=> hard)
    /\ [](walkres # "running" =>
            /\ walkres = (IF hard THEN "WalkAbort" ELSE "Ok")
            /\ \A w \in Workers : slot[w] = Idle)
    /\ [][abort => abort']_vars

\* C10 witness: a worker finished its entry after another one had set
\* abort, and walk then returned WalkAbort
C10_Witness ==
    /\ walkres = "WalkAbort" /\ hard /\ delivered = MaxEntries
    /\ wlast.op = "entry" /\ wlast.ws = "Continue"

\* C23: when the lookup of an entry gave Hit or Dir, scan_entry does not
\* ask the scanner: no scan failure can end the entry, the cache map stays
\* as it is, and if the entry is passed on, one Scan statistic is sent and
\* the StorePaths of the lookup (cached, bytes_scanned = 0, the refs of the
\* cache line) goes to the GC channel exactly if it has references.
C23_HitIsNotRescanned ==
    [][\A w \in Workers :
        (Returns(w) /\ slot[w].kind \in {"Hit", "Dir"}) =>
            /\ wlast'.step # "scan"
            /\ cache'.map = cache.map
            /\ wlast'.res = Ok("Continue") =>
                /\ statsq'.scan = statsq.scan + 1
                /\ slot[w].sp.bytes_scanned = 0
                /\ gcq' = IF slot[w].sp.refs = <<>> THEN gcq
                          ELSE Append(gcq, slot[w].sp)
            /\ wlast'.res # Ok("Continue") =>
                statsq'.scan = statsq.scan /\ gcq' = gcq]_vars

\* C23 witness: a Hit with one reference went to the GC channel unscanned
C23_Witness ==
    /\ wlast.op = "entry" /\ wlast.res = Ok("Continue") /\ cache.hits = 1
    /\ delivered = 1 /\ statsq.scan = 1 /\ Len(gcq) = 1
    /\ gcq[1].cached /\ gcq[1].bytes_scanned = 0 /\ gcq[1].refs = <<RefA1>>

----------------------------------------------------------------------------
(* GCRoots and RegistryWorker (registry.rs) *)

STORE == "/nix/store/"

\* The scan root and paths below it; the root itself is handed out by the
\* walker as its first entry
StartDir == "/start"
Paths == {"/start", "/start/f", "/start/g", "/start/sub/f"}

\* Path::parent
Parent(path) ==
    CASE path = "/start" -> "/"
      [] path = "/start/f" -> "/start"
      [] path = "/start/g" -> "/start"
      [] path = "/start/sub/f" -> "/start/sub"

\* Directories below prefix, named by the path that follows prefix;
\* GCRoots::new (registry.rs:54-59) puts topdir at prefix/startdir
LinkDirs == {"/", "/start", "/start/sub"}
Topdir == StartDir
UnderTopdir(dir) == dir \in {"/start", "/start/sub"}
SubDirs(dir) ==
    CASE dir = "/" -> {"/start"}
      [] dir = "/start" -> {"/start/sub"}
      [] OTHER -> {}

\* extract_hash (registry.rs:102-104): the leading 32 bytes of the target
ExtractHash(ref) == ref[1]
Hashes == {ExtractHash(r) : r \in Refs}

\* A link name is a directory joined with a hash
LinkNames == LinkDirs \X Hashes
NoEntry == [kind |-> "none"]
Symlink(target) == [kind |-> "symlink", target |-> target]
PlainFile == [kind |-> "file"]

\* Path::new(STORE).join(target)
StoreJoin(ref) == <<STORE, ref[1], ref[2]>>

\* The part of a StorePaths the registry reads: path() and iter_refs()
RegSP(path, refs) == [path |-> path, refs |-> refs]

\* gc_link_dir (registry.rs:159-163); the scanned paths are absolute since
\* startdir is canonicalized (main.rs:148-152), so cwd.join(dir) is dir
GcLinkDir(scanned) == Parent(scanned)

\* State of the link tree and the worker: [links, dirs, seen]
Stale(st) ==
    {n \in LinkNames : /\ UnderTopdir(n[1])
                       /\ st.links[n].kind = "symlink"
                       /\ n \notin st.seen}

EmptyDir(st, d) ==
    /\ \A n \in LinkNames : n[1] = d => st.links[n].kind = "none"
    /\ SubDirs(d) \cap st.dirs = {}

\* Directories below topdir that fs::remove_dir can remove when visited
Removable(st) == {d \in st.dirs : UnderTopdir(d) /\ EmptyDir(st, d)}

Unlink(st, S, D) ==
    [st EXCEPT !.links = [n \in LinkNames |-> IF n \in S THEN NoEntry ELSE @[n]],
               !.dirs = @ \ D]

\* The links removed before a remove_file fails at link x: the walk is
\* depth first in readdir order, so a subdirectory is visited as a whole
RemovedBefore(st, x) ==
    LET top == {n \in Stale(st) \ {x} : n[1] = Topdir}
        sub == {n \in Stale(st) \ {x} : n[1] # Topdir}
    IN IF x[1] = Topdir
       THEN {t \cup u : t \in SUBSET top, u \in {{}, sub}}
       ELSE {t \cup u : t \in SUBSET top, u \in SUBSET sub}

\* (mutant of cleanup: symlinks are left in place)
CleanupKeepingLinks(st) ==
    IF Topdir \notin st.dirs THEN {[res |-> Ok(0), st |-> st]}
    ELSE {[res |-> Ok(0), st |-> Unlink(st, {}, Removable(st))]}

\* cleanup (registry.rs:125-156): every outcome it can have.  Directories
\* are visited before their content, so only those empty at the start go.
Cleanup(st) ==
    IF Topdir \notin st.dirs THEN {[res |-> Ok(0), st |-> st]}
    ELSE {[res |-> Ok(Cardinality(Stale(st))),
           st |-> Unlink(st, Stale(st), Removable(st))]}
         \cup {[res |-> Err(MkErr("io", "PermissionDenied")),
                st |-> Unlink(st, S, D)] :
                  S \in UNION {RemovedBefore(st, x) : x \in Stale(st)},
                  D \in SUBSET Removable(st)}

\* fs::create_dir_all
CreateDirAll(existing, dir) ==
    existing \cup {dir} \cup (IF dir = "/start/sub" THEN {"/start"} ELSE {})

\* create_link (registry.rs:165-171); io tells whether the file system
\* lets the directory and the symlink be created
CreateLink(st, dir, linkname, target, io) ==
    IF ~io THEN [res |-> Err(MkErr("UErr", "Create")), st |-> st]
    ELSE [res |-> Ok(1),
          st |-> [links |-> [st.links EXCEPT ![linkname] = Symlink(target)],
                  dirs |-> CreateDirAll(st.dirs, dir),
                  seen |-> st.seen \cup {linkname}]]

\* (mutant of link: an existing link is replaced whatever it points to, and
\* the seen set is not consulted)
LinkRecreating(st, dir, ref, io) ==
    LET linkname == <<dir, ExtractHash(ref)>>
        target == StoreJoin(ref)
        e == st.links[linkname]
    IN IF e.kind = "symlink"
       THEN IF ~io THEN [res |-> Err(MkErr("UErr", "Remove")), st |-> st]
            ELSE CreateLink([st EXCEPT !.links[linkname] = NoEntry],
                            dir, linkname, target, io)
       ELSE IF e.kind = "none"
       THEN CreateLink(st, dir, linkname, target, io)
       ELSE [res |-> Err(MkErr("UErr", "ReadLink")), st |-> st]

\* (mutant of link: an existing link is kept whatever it points to)
LinkKeepingOtherTarget(st, dir, ref, io) ==
    LET linkname == <<dir, ExtractHash(ref)>>
        target == StoreJoin(ref)
        e == st.links[linkname]
    IN IF linkname \in st.seen THEN [res |-> Ok(0), st |-> st]
       ELSE IF e.kind = "symlink"
       THEN [res |-> Ok(0), st |-> [st EXCEPT !.seen = @ \cup {linkname}]]
       ELSE IF e.kind = "none"
       THEN CreateLink(st, dir, linkname, target, io)
       ELSE [res |-> Err(MkErr("UErr", "ReadLink")), st |-> st]

\* link (registry.rs:176-199)
Link(st, dir, ref, io) ==
    LET linkname == <<dir, ExtractHash(ref)>>
        target == StoreJoin(ref)
        e == st.links[linkname]
    IN IF linkname \in st.seen THEN [res |-> Ok(0), st |-> st]
       ELSE IF e.kind = "symlink"
       THEN IF e.target = target
            THEN [res |-> Ok(0), st |-> [st EXCEPT !.seen = @ \cup {linkname}]]
            ELSE IF ~io THEN [res |-> Err(MkErr("UErr", "Remove")), st |-> st]
            ELSE CreateLink([st EXCEPT !.links[linkname] = NoEntry],
                            dir, linkname, target, io)
       ELSE IF e.kind = "none"
       THEN CreateLink(st, dir, linkname, target, io)
       ELSE [res |-> Err(MkErr("UErr", "ReadLink")), st |-> st]

\* register (registry.rs:202-205): links the refs in order and stops at the
\* first error; the file system refuses changes from the failAt-th ref on
RECURSIVE RegisterFrom(_, _, _, _, _, _)
RegisterFrom(st, dir, refs, i, failAt, n) ==
    IF i > Len(refs) THEN [res |-> Ok(n), st |-> st]
    ELSE LET l == Link(st, dir, refs[i], failAt = 0 \/ i < failAt)
         IN IF ~l.res.ok THEN l
            ELSE RegisterFrom(l.st, dir, refs, i + 1, failAt, n + l.res.val)

Register(st, sp, failAt) ==
    RegisterFrom(st, GcLinkDir(sp.path), sp.refs, 1, failAt, 0)

----------------------------------------------------------------------------
(* SpecReg: the registry thread and commit *)

\* Reference lists as find_paths leaves them: sorted, without duplicates
RegRefLists == {<<RefA1>>, <<RefA2>>, <<RefA1, RefA2>>, <<RefA1, RefB1>>}

\* Link trees found below prefix when the program starts
InitLinks ==
    {[n \in LinkNames |->
        CASE n = <<"/", "hashA">> -> out
          [] n = <<"/start", "hashA">> -> a
          [] n = <<"/start", "hashB">> -> b
          [] n = <<"/start/sub", "hashA">> -> c
          [] OTHER -> NoEntry] :
      out \in {NoEntry, Symlink(StoreJoin(RefA1))},
      a \in {NoEntry, Symlink(StoreJoin(RefA1)), Symlink(StoreJoin(RefA2)),
             PlainFile},
      b \in {NoEntry, Symlink(StoreJoin(RefB1))},
      c \in {NoEntry, Symlink(StoreJoin(RefA2))}}

\* The directories a link tree needs
DirsOf(l) ==
    {"/"} \cup {n[1] : n \in {m \in LinkNames : l[m].kind # "none"}}
          \cup (IF l[<<"/start/sub", "hashA">>].kind # "none"
                THEN {"/start"} ELSE {})

InitReg ==
    /\ CacheIdle /\ WalkIdle /\ SysIdle /\ ScanIdle /\ PrivIdle /\ PipeIdle
    /\ todo = <<>> /\ rx = <<>> /\ rxopen = TRUE
    /\ links \in InitLinks
    /\ \E E \in {{}, {"/start"}, {"/start", "/start/sub"}} :
            dirs = DirsOf(links) \cup E
    /\ seen = {} /\ rstage = "loop" /\ rnext = 1
    /\ counts = [cleaned |-> 0, registered |-> 0]
    /\ links0 = links

Sent == todo \o rx

\* A walk worker sends a non-empty StorePaths (walk.rs:61-63).  Every path
\* is walked once; if the scan root is a file it is the only entry.
RSend ==
    /\ rxopen /\ Len(Sent) < MaxTodo
    /\ \E path \in Paths, refs \in RegRefLists :
        /\ \A i \in 1..Len(Sent) : Sent[i].path \notin {path, StartDir}
        /\ path = StartDir => Sent = <<>>
        /\ rx' = Append(rx, RegSP(path, refs))
    /\ UNCHANGED <<cacheVars, walkVars, todo, rxopen, links, dirs, seen,
                   rstage, rnext, counts, links0, sysVars, scanVars, privVars, pipeVars>>

\* The walk is over and the sending ends are dropped (walk.rs:96-97)
RClose ==
    /\ rxopen
    /\ rxopen' = FALSE
    /\ UNCHANGED <<cacheVars, walkVars, todo, rx, links, dirs, seen, rstage,
                   rnext, counts, links0, sysVars, scanVars, privVars, pipeVars>>

\* (mutant of register_loop: each StorePaths is linked when it arrives)
RegisterLoopLinking ==
    /\ rstage = "loop" /\ rx # <<>>
    /\ todo' = Append(todo, Head(rx))
    /\ rx' = Tail(rx)
    /\ LET o == Register([links |-> links, dirs |-> dirs, seen |-> seen],
                         Head(rx), 0)
       IN links' = o.st.links /\ dirs' = o.st.dirs /\ seen' = o.st.seen
    /\ UNCHANGED <<cacheVars, walkVars, rxopen, rstage, rnext, counts, links0,
                   sysVars, scanVars, privVars, pipeVars>>

\* One turn of register_loop (registry.rs:69-74)
RegisterLoop ==
    /\ rstage = "loop" /\ rx # <<>>
    /\ todo' = Append(todo, Head(rx))
    /\ rx' = Tail(rx)
    /\ UNCHANGED <<cacheVars, walkVars, rxopen, links, dirs, seen, rstage,
                   rnext, counts, links0, sysVars, scanVars, privVars, pipeVars>>

\* (mutant of spawn_threads: commit does not wait for register_loop)
CommitCleanupEarly ==
    /\ rstage = "loop"
    /\ \E o \in Cleanup([links |-> links, dirs |-> dirs, seen |-> {}]) :
        /\ links' = o.st.links /\ dirs' = o.st.dirs /\ seen' = o.st.seen
        /\ rstage' = IF o.res.ok THEN "register" ELSE "failed"
        /\ counts' = IF o.res.ok THEN [counts EXCEPT !.cleaned = o.res.val]
                     ELSE counts
    /\ UNCHANGED <<cacheVars, walkVars, todo, rx, rxopen, rnext, links0, sysVars, scanVars, privVars, pipeVars>>

\* commit, first part (registry.rs:78-79): a new worker runs cleanup.  It is
\* called after register_loop has returned (walk.rs:114-119), which is when
\* the channel is closed and empty.
CommitCleanup ==
    /\ rstage = "loop" /\ ~rxopen /\ rx = <<>>
    /\ \E o \in Cleanup([links |-> links, dirs |-> dirs, seen |-> {}]) :
        /\ links' = o.st.links /\ dirs' = o.st.dirs /\ seen' = o.st.seen
        /\ rstage' = IF o.res.ok THEN "register" ELSE "failed"
        /\ counts' = IF o.res.ok THEN [counts EXCEPT !.cleaned = o.res.val]
                     ELSE counts
    /\ UNCHANGED <<cacheVars, walkVars, todo, rx, rxopen, rnext, links0, sysVars, scanVars, privVars, pipeVars>>

\* commit, second part (registry.rs:80-84): register for the next StorePaths
CommitRegister ==
    /\ rstage = "register" /\ rnext <= Len(todo)
    /\ \E failAt \in 0..Len(todo[rnext].refs) :
        LET o == Register([links |-> links, dirs |-> dirs, seen |-> seen],
                          todo[rnext], failAt)
        IN /\ links' = o.st.links /\ dirs' = o.st.dirs /\ seen' = o.st.seen
           /\ rstage' = IF o.res.ok THEN "register" ELSE "failed"
           /\ counts' = IF o.res.ok
                        THEN [counts EXCEPT !.registered = @ + o.res.val]
                        ELSE counts
    /\ rnext' = rnext + 1
    /\ UNCHANGED <<cacheVars, walkVars, todo, rx, rxopen, links0, sysVars, scanVars, privVars, pipeVars>>

\* commit returns Ok (registry.rs:97)
CommitOk ==
    /\ rstage = "register" /\ rnext > Len(todo)
    /\ rstage' = "done"
    /\ UNCHANGED <<cacheVars, walkVars, todo, rx, rxopen, links, dirs, seen,
                   rnext, counts, links0, sysVars, scanVars, privVars, pipeVars>>

NextReg ==
    \/ RSend
    \/ RClose
    \/ RegisterLoop
    \/ CommitCleanup
    \/ CommitRegister
    \/ CommitOk

SpecReg == InitReg /\ [][NextReg]_vars

----------------------------------------------------------------------------
(* Claims about the registry *)

\* C1: after a successful commit, for every buffered StorePaths and every
\* reference r in it, the link directory of its path holds a symlink named
\* by the hash of r that points to /nix/store/r, whatever else was
\* registered in that directory during the run.
C1_EveryRefLinked ==
    rstage = "done" =>
        \A i \in 1..Len(todo) : \A j \in 1..Len(todo[i].refs) :
            links[<<GcLinkDir(todo[i].path), ExtractHash(todo[i].refs[j])>>]
                = Symlink(StoreJoin(todo[i].refs[j]))

\* C2: cleanup removes every symlink below topdir that the worker has not
\* seen, and after a successful commit every symlink below topdir is in the
\* worker's seen set.
C2_LinksBelowTopdirSeen ==
    /\ [][(rstage = "loop" /\ rstage' = "register") =>
            \A n \in LinkNames :
                (UnderTopdir(n[1]) /\ links[n].kind = "symlink")
                    => links'[n].kind = "none"]_vars
    /\ [](rstage = "done" =>
            \A n \in LinkNames :
                (UnderTopdir(n[1]) /\ links[n].kind = "symlink") => n \in seen)

\* C2 witness: commit succeeded, cleanup removed a link that no reference
\* asked for, and a registered link is below topdir
C2_Witness ==
    /\ rstage = "done" /\ counts.cleaned > 0
    /\ links0[<<"/start/sub", "hashA">>].kind = "symlink"
    /\ links[<<"/start/sub", "hashA">>].kind = "none"
    /\ links[<<"/start", "hashA">>].kind = "symlink"
    /\ <<"/start", "hashA">> \in seen

\* C24: once commit has begun the channel is closed and empty, so every
\* StorePaths a worker sent is in todo; from then on nothing is sent and
\* todo does not change.
C24_CommitAfterDrain ==
    /\ [](rstage # "loop" => (rx = <<>> /\ ~rxopen))
    /\ [][(rstage = "loop" /\ rstage' # "loop") =>
            (Sent = todo /\ ~rxopen)]_vars
    /\ [][rstage # "loop" => (rx' = rx /\ todo' = todo /\ rxopen' = rxopen)]_vars

\* C24 witness: two StorePaths were sent, both are in todo, and commit is
\* past cleanup
C24_Witness ==
    /\ rstage = "register" /\ Len(todo) = 2 /\ rx = <<>> /\ ~rxopen

\* C25: a turn of register_loop appends the received StorePaths to todo and
\* leaves links, directories and the seen set alone; until commit begins
\* the link tree is the one the program found.
C25_RegisterLoopOnlyBuffers ==
    /\ [][todo' # todo =>
            /\ todo' = Append(todo, Head(rx))
            /\ links' = links /\ dirs' = dirs /\ seen' = seen]_vars
    /\ [](rstage = "loop" => (links = links0 /\ seen = {}))

\* C25 witness: register_loop has buffered two StorePaths whose first
\* reference has no link yet
C25_Witness ==
    /\ rstage = "loop" /\ Len(todo) = 2 /\ ~rxopen
    /\ links[<<GcLinkDir(todo[1].path), ExtractHash(todo[1].refs[1])>>].kind
            = "none"
    /\ links = links0

\* commit registers todo[rnext] in this step
Registers == rstage = "register" /\ rnext' = rnext + 1

\* C26: when commit registers a StorePaths whose link directory and
\* references were all registered before in the same run, no link is made,
\* the count stays, and links, directories and the seen set are as the
\* earlier registration left them, whether or not the file system would
\* allow changes.
C26_RegisterTwiceIdempotent ==
    [][(/\ Registers
        /\ \E i \in 1..(rnext - 1) :
            /\ GcLinkDir(todo[i].path) = GcLinkDir(todo[rnext].path)
            /\ \A j \in 1..Len(todo[rnext].refs) :
                \E k \in 1..Len(todo[i].refs) :
                    todo[i].refs[k] = todo[rnext].refs[j])
       => /\ rstage' = "register"
          /\ counts' = counts
          /\ links' = links /\ dirs' = dirs /\ seen' = seen]_vars

\* C26 witness: two files of one directory name the same two store paths;
\* commit made the two links once
C26_Witness ==
    /\ rstage = "done" /\ Len(todo) = 2
    /\ todo[1] = RegSP("/start/f", <<RefA1, RefB1>>)
    /\ todo[2] = RegSP("/start/g", <<RefA1, RefB1>>)
    /\ counts.registered = 2
    /\ links[<<"/start", "hashA">>] = Symlink(StoreJoin(RefA1))
    /\ links[<<"/start", "hashB">>] = Symlink(StoreJoin(RefB1))

\* C27: when commit registers a StorePaths with one reference whose link
\* name the worker has not seen, and succeeds: an existing symlink to
\* /nix/store/<ref> stays and counts 0; an existing symlink to something
\* else is replaced by one to /nix/store/<ref> and counts 1; without a link
\* the directory and its parents exist afterwards, the link is made and
\* counts 1.  The link name is in seen afterwards and no other link changes.
C27_LinkCases ==
    [][(/\ Registers /\ rstage' = "register"
        /\ Len(todo[rnext].refs) = 1
        /\ <<GcLinkDir(todo[rnext].path), ExtractHash(todo[rnext].refs[1])>>
                \notin seen)
       => LET dir == GcLinkDir(todo[rnext].path)
              n == <<dir, ExtractHash(todo[rnext].refs[1])>>
              target == StoreJoin(todo[rnext].refs[1])
          IN /\ n \in seen'
             /\ \A x \in LinkNames \ {n} : links'[x] = links[x]
             /\ links'[n] = Symlink(target)
             /\ links[n] = Symlink(target) =>
                    /\ counts'.registered = counts.registered
                    /\ dirs' = dirs
             /\ links[n] # Symlink(target) =>
                    /\ links[n].kind \in {"symlink", "none"}
                    /\ counts'.registered = counts.registered + 1
                    /\ dir \in dirs'
                    /\ dir = "/start/sub" => "/start" \in dirs']_vars

\* C27 witness: the link beside topdir pointed to another store path and
\* was replaced
C27_Witness ==
    /\ rstage = "done" /\ todo = <<RegSP("/start", <<RefA2>>)>>
    /\ links0[<<"/", "hashA">>] = Symlink(StoreJoin(RefA1))
    /\ links[<<"/", "hashA">>] = Symlink(StoreJoin(RefA2))
    /\ counts.registered = 1

\* commit after cleanup (registry.rs:80-84) when the file system allows
\* every change: register for each StorePaths of the buffer, in its order
RECURSIVE RegisterAll(_, _)
RegisterAll(st, buf) ==
    IF buf = <<>> THEN [res |-> Ok(0), st |-> st]
    ELSE LET r == Register(st, Head(buf), 0)
         IN IF ~r.res.ok THEN r ELSE RegisterAll(r.st, Tail(buf))

\* The orders in which the workers can have sent the StorePaths of buf
Schedules(buf) ==
    {[i \in 1..Len(buf) |-> buf[f[i]]] :
        f \in {g \in [1..Len(buf) -> 1..Len(buf)] :
                 \A i, j \in 1..Len(buf) : g[i] = g[j] => i = j}}

\* C30: when commit has cleaned up and is about to register the buffered
\* StorePaths, the links it ends with are the same for every order in
\* which the workers could have delivered them.
C30_ScheduleIndependent ==
    (rstage = "register" /\ rnext = 1) =>
        LET st == [links |-> links, dirs |-> dirs, seen |-> seen]
            mine == RegisterAll(st, todo)
        IN \A other \in Schedules(todo) :
            (mine.res.ok /\ RegisterAll(st, other).res.ok)
                => RegisterAll(st, other).st.links = mine.st.links

\* C38 (as claimed): a symlink that is below topdir before commit, points
\* to the store path of a reference, and whose link directory and reference
\* are registered again in this run, is on disk with that target in every
\* state of commit, also after commit has failed part-way.
C38_ValidLinkNeverRemoved ==
    \A n \in LinkNames :
        (/\ UnderTopdir(n[1]) /\ links0[n].kind = "symlink"
         /\ \E i \in 1..Len(todo) :
              /\ GcLinkDir(todo[i].path) = n[1]
              /\ \E j \in 1..Len(todo[i].refs) :
                    /\ ExtractHash(todo[i].refs[j]) = n[2]
                    /\ StoreJoin(todo[i].refs[j]) = links0[n].target)
            => links[n] = links0[n]

----------------------------------------------------------------------------
(* The program: main, App::run (main.rs) and spawn_threads (walk.rs) *)

\* Statistics after receive_loop has drained the channel
\* (statistics.rs:119-132, 148-163)
StatsReceive(sq) == [softerrors |-> sq.soft, files |-> sq.scan]

\* (mutant of App::run: the soft errors are not turned into a status)
RunIgnoringSoftErrors(res) ==
    IF ~res.ok THEN res ELSE Ok(0)

\* App::run (main.rs:162-168) on the result of spawn_threads
Run(res) ==
    IF ~res.ok THEN res
    ELSE IF res.val.softerrors = 0 THEN Ok(0) ELSE Ok(1)

\* main (main.rs:417-426): the exit status
Main(res) == IF res.ok THEN res.val ELSE 2

\* What can stop the program before the walk: App::gcroots (main.rs:125-135)
\* and ProcessingContext::create (walk.rs:28-37)
CreateFailures ==
    {MkErr("UErr", "WhoAmI"), MkErr("io", "NotFound"),
     MkErr("UErr", "LoadCache")}

\* What GCRoots::commit can fail with (registry.rs:76-99, system.rs:55-64)
GcCommitFailures == {MkErr("UErr", "Remove"), MkErr("UErr", "Create")}

Exited(p, res, why) ==
    [p EXCEPT !.stage = "exit", !.exit = Main(Run(res)), !.failed = why]

InitRun ==
    /\ CacheIdle /\ WalkIdle /\ RegIdle
    /\ procs = <<>> /\ flock = {} /\ ScanIdle /\ PrivIdle /\ PipeIdle
    /\ \E reg \in BOOLEAN :
        prog = [stage |-> "start", register |-> reg, exit |-> -1,
                failed |-> "none"]

\* App::gcroots and ProcessingContext::create
RunCreate ==
    /\ prog.stage = "start"
    /\ \/ /\ \E e \in CreateFailures : prog' = Exited(prog, Err(e), "create")
          /\ UNCHANGED cache
       \/ /\ cache' \in WalkCaches
          /\ prog' = [prog EXCEPT !.stage = "walk"]
    /\ UNCHANGED <<disk, cstage, nops, clast, stored, touched, walkVars,
                   regVars, scanVars, privVars, procs, flock, pipeVars>>

\* The walker hands out an entry; scan_entry and the closure run
RunEntry ==
    /\ prog.stage = "walk" /\ ~quit /\ delivered < MaxEntries
    /\ \E d \in WalkDents :
        LET lk == CacheLookup(cache, d)
        IN \E sr \in (IF lk.kind = "Miss" THEN FindPaths(d) ELSE {Ok(lk.sp)}) :
            LET o == ScanEntry(lk.cache, lk, sr)
                cl == Closure(o.res)
            IN /\ cache' = o.cache
               /\ statsq' = [soft |-> statsq.soft + o.soft + cl.soft,
                             scan |-> statsq.scan + o.scan]
               /\ gcq' = gcq \o o.gc
               /\ abort' = (abort \/ cl.abort)
               /\ quit' = (quit \/ cl.ws = "Quit")
               /\ hard' = (hard \/ cl.ws = "Quit")
               /\ wlast' = [op |-> "entry", w |-> "w1", res |-> o.res,
                            step |-> o.step, ws |-> cl.ws, esoft |-> o.soft,
                            csoft |-> cl.soft]
    /\ delivered' = delivered + 1
    /\ UNCHANGED <<disk, cstage, nops, clast, stored, touched, slot, walkres,
                   regVars, sysVars, scanVars, privVars, pipeVars>>

\* walk returns (walk.rs:96-100); spawn_threads stops on its error
\* (walk.rs:115-117) and skips both commits unless app.register
RunJoin ==
    /\ prog.stage = "walk"
    /\ walkres' = WalkResult(abort)
    /\ prog' = IF walkres' # "Ok"
               THEN Exited(prog, Err(MkErr("UErr", "WalkAbort")), "walk")
               ELSE IF prog.register THEN [prog EXCEPT !.stage = "gccommit"]
               ELSE Exited(prog, Ok(StatsReceive(statsq)), "none")
    /\ UNCHANGED <<cacheVars, abort, quit, slot, statsq, gcq, delivered, wlast,
                   hard, regVars, scanVars, privVars, procs, flock, pipeVars>>

\* gcroots.commit (walk.rs:119); the registry itself is followed in SpecReg
RunGcCommit ==
    /\ prog.stage = "gccommit"
    /\ \/ \E e \in GcCommitFailures : prog' = Exited(prog, Err(e), "registry")
       \/ prog' = [prog EXCEPT !.stage = "cachecommit"]
    /\ UNCHANGED <<cacheVars, walkVars, regVars, scanVars, privVars, procs, flock, pipeVars>>

\* cache.commit (walk.rs:121-123), then the statistics are returned
RunCacheCommit ==
    /\ prog.stage = "cachecommit"
    /\ LET r == CacheCommit(cache)
       IN /\ cache' = r.cache
          /\ \E saved \in (IF r.save THEN BOOLEAN ELSE {TRUE}) :
               /\ IF r.save /\ saved THEN disk' \in CacheMapSave(r.cache.map)
                  ELSE disk' = disk
               /\ prog' = IF saved
                          THEN Exited(prog, Ok(StatsReceive(statsq)), "none")
                          ELSE Exited(prog, Err(MkErr("UErr", "SaveCache")),
                                      "cachesave")
    /\ cstage' = "done"
    /\ UNCHANGED <<nops, clast, stored, touched, walkVars, regVars, scanVars, privVars, procs, flock, pipeVars>>

NextRun ==
    \/ RunCreate
    \/ RunEntry
    \/ RunJoin
    \/ RunGcCommit
    \/ RunCacheCommit

SpecRun == InitRun /\ [][NextRun]_vars

\* C11: the exit status is 2 exactly when something failed hard (before the
\* walk, a walk abort, the registry or the cache save), otherwise 0 without
\* and 1 with soft errors; an entry that only caused soft errors neither
\* sets abort nor stops the walker.
C11_ExitStatus ==
    /\ [](prog.stage = "exit" =>
            /\ prog.exit = 2 <=> (prog.failed # "none")
            /\ prog.failed = "walk" <=> hard
            /\ prog.exit = 0 <=> (prog.failed = "none" /\ statsq.soft = 0)
            /\ prog.exit = 1 <=> (prog.failed = "none" /\ statsq.soft > 0))
    /\ [][(delivered' # delivered /\ wlast'.ws # "Quit")
            => (abort' = abort /\ quit' = quit)]_vars

\* C11 witness: a run with two soft errors and a saved cache ended with 1
C11_Witness ==
    /\ prog.stage = "exit" /\ prog.exit = 1 /\ statsq.soft = 2
    /\ cstage = "done" /\ ~abort

----------------------------------------------------------------------------
(* Statistics (statistics.rs) *)

\* struct Pair and its Default
Pair(files, bytes) == [files |-> files, bytes |-> bytes]
PairDefault == Pair(0, 0)

\* AddAssign<u64> for Pair (statistics.rs:39-44)
PairAddAssign(p, inc) == Pair(p.files + 1, p.bytes + inc)

\* enum StatsMsg; struct File
SoftErrorMsg == [kind |-> "SoftError"]
ScanMsg(scanned, ext, magic) ==
    [kind |-> "Scan", scanned |-> scanned, ext |-> ext, magic |-> magic]

\* Statistics::new (statistics.rs:105-117); the clock and the progress
\* output are left out
StatisticsNew(detailed) ==
    [softerrors |-> 0, total |-> PairDefault, by_ext |-> EmptyMap,
     by_magic |-> EmptyMap, detailed |-> detailed]

\* HashMap::entry(k).or_insert(Pair::default()) followed by `+= inc`
EntryAdd(m, k, inc) ==
    MapInsert(m, k, PairAddAssign(IF k \in DOMAIN m THEN m[k] ELSE PairDefault,
                                  inc))

\* (mutant of process: the sub-totals are kept whatever `detailed` says)
ProcessAlwaysDetailed(st, msg) ==
    IF msg.kind = "Scan"
    THEN [st EXCEPT !.total = PairAddAssign(@, msg.scanned),
                    !.by_ext = EntryAdd(@, msg.ext, msg.scanned),
                    !.by_magic = EntryAdd(@, msg.magic, msg.scanned)]
    ELSE [st EXCEPT !.softerrors = @ + 1]

\* Statistics::process (statistics.rs:119-132)
Process(st, msg) ==
    IF msg.kind = "Scan"
    THEN IF st.detailed
         THEN [st EXCEPT !.total = PairAddAssign(@, msg.scanned),
                         !.by_ext = EntryAdd(@, msg.ext, msg.scanned),
                         !.by_magic = EntryAdd(@, msg.magic, msg.scanned)]
         ELSE [st EXCEPT !.total = PairAddAssign(@, msg.scanned)]
    ELSE [st EXCEPT !.softerrors = @ + 1]

----------------------------------------------------------------------------
(* SpecStats: senders and the receive_loop of the statistics collector *)

\* Messages the collector is sent: soft errors, and scans of files with
\* the same and with different extensions, with and without bytes read
StatsMsgs ==
    {SoftErrorMsg, ScanMsg(45, "png", "image/x-png"),
     ScanMsg(21, "jpg", "image/jpeg"), ScanMsg(85, "png", "image/png"),
     ScanMsg(0, "", "")}

InitStats ==
    /\ CacheIdle /\ WalkIdle /\ RegIdle /\ SysIdle /\ ScanIdle /\ PrivIdle
    /\ \E d \in BOOLEAN : stats = StatisticsNew(d)
    /\ srx = <<>> /\ sproc = <<>> /\ sstage = "loop" /\ pending = {}
    /\ hist = <<>>

\* A holder of a StatsTx sends a message (walk.rs:51, 60, 91)
StSend ==
    /\ sstage = "loop" /\ Len(srx) + Len(sproc) < MaxMsgs
    /\ \E msg \in StatsMsgs : srx' = Append(srx, msg)
    /\ UNCHANGED <<cacheVars, walkVars, regVars, sysVars, scanVars, privVars,
                   stats, sproc, sstage, pending, hist>>

\* One turn of receive_loop (statistics.rs:151-156)
StReceive ==
    /\ sstage = "loop" /\ srx # <<>>
    /\ stats' = Process(stats, Head(srx))
    /\ sproc' = Append(sproc, Head(srx))
    /\ srx' = Tail(srx)
    /\ UNCHANGED <<cacheVars, walkVars, regVars, sysVars, scanVars, privVars,
                   sstage, pending, hist>>

\* The senders are gone and the channel is empty: receive_loop returns
StReturn ==
    /\ sstage = "loop" /\ srx = <<>>
    /\ sstage' = "returned"
    /\ UNCHANGED <<cacheVars, walkVars, regVars, sysVars, scanVars, privVars,
                   stats, srx, sproc, pending, hist>>

NextStats ==
    \/ StSend
    \/ StReceive
    \/ StReturn

SpecStats == InitStats /\ [][NextStats]_vars

\* The Scan messages of a sequence, and sums over them
ScansOf(msgs) == SelectSeq(msgs, LAMBDA x : x.kind = "Scan")

RECURSIVE SumScanned(_)
SumScanned(msgs) ==
    IF msgs = <<>> THEN 0 ELSE Head(msgs).scanned + SumScanned(Tail(msgs))

RECURSIVE SumPairs(_, _)
SumPairs(m, keys) ==
    IF keys = {} THEN PairDefault
    ELSE LET k == CHOOSE x \in keys : TRUE
             r == SumPairs(m, keys \ {k})
         IN Pair(m[k].files + r.files, m[k].bytes + r.bytes)

\* C34: whatever messages the collector has processed, softerrors is the
\* number of SoftError messages, total.files the number of Scan messages
\* and total.bytes the sum of their byte counts; the sub-totals by
\* extension stay empty unless detailed is set, and then each is the count
\* and byte sum of the Scan messages with that extension, so that they sum
\* to the totals.
C34_StatisticsTotals ==
    LET scans == ScansOf(sproc)
    IN /\ stats.softerrors = Len(sproc) - Len(scans)
       /\ stats.total = Pair(Len(scans), SumScanned(scans))
       /\ ~stats.detailed => stats.by_ext = EmptyMap
       /\ stats.detailed =>
            /\ SumPairs(stats.by_ext, DOMAIN stats.by_ext) = stats.total
            /\ \A e \in DOMAIN stats.by_ext :
                LET mine == SelectSeq(scans, LAMBDA x : x.ext = e)
                IN stats.by_ext[e] = Pair(Len(mine), SumScanned(mine))
            /\ \A i \in 1..Len(scans) : scans[i].ext \in DOMAIN stats.by_ext

\* C34 witness: receive_loop has returned after two scans with one
\* extension and a soft error, in detailed mode
C34_Witness ==
    /\ sstage = "returned" /\ stats.detailed
    /\ stats.softerrors = 1 /\ stats.total = Pair(2, 130)
    /\ stats.by_ext = MapInsert(EmptyMap, "png", Pair(2, 130))

----------------------------------------------------------------------------
(* SpecPipe: the threads of spawn_threads (walk.rs:105-128): the workers   *)
(* of the walk, the statistics thread and register_loop on the caller's    *)
(* thread, then the join and the two commits                               *)

\* App.register as the arguments give it (main.rs:220)
AppRegister(list, register) == ~list \/ register

\* The tree below the scan root: a directory holding a file and a symlink
\* that points back to the directory.  The walker is built without
\* follow_links (main.rs:91-104): it hands a symlink out as an entry and
\* does not descend into it.
PipePaths == {"/start", "/start/f", "/start/g"}

Children(path) == IF path = StartDir THEN PipePaths \ {StartDir} ELSE {}

PipeDent(path) ==
    CASE path = "/start" -> MkDent("dir", 3, TRUE, StartDev, 10, 5, "none")
      [] path = "/start/f" -> MkDent("file", 1, TRUE, StartDev, 10, 5, "none")
      [] path = "/start/g" -> MkDent("symlink", 2, TRUE, StartDev, 10, 5, "none")

\* File::from(&StorePaths) (statistics.rs:59-72); none of the paths has an
\* extension
FileFrom(sp) == ScanMsg(sp.bytes_scanned, "", "")

\* Cache files the run finds: empty, or holding a current line for the file
PipeDisks ==
    {<<>>, EncodeMap(MapInsert(EmptyMap, 1, CacheLineNew(10, 5, <<RefA1>>)))}

\* Link trees the run finds: none, or a link below topdir left by an
\* earlier run
PipeLinks ==
    {l \in InitLinks : \A n \in LinkNames :
        n # <<"/start", "hashB">> => l[n] = NoEntry}

\* The constants of a run of the pipeline
pipeFixed ==
    <<cstage, nops, clast, stored, touched, statsq, rnext, links0, procs,
      flock, scanVars, privVars>>

Returned(p, ret) == [p EXCEPT !.stage = "returned", !.ret = ret]

InitPipe ==
    /\ \E l \in {0, 1} : cache = CacheNew(l)
    /\ disk \in PipeDisks
    /\ cstage = "run" /\ nops = 0 /\ clast = [op |-> "none"]
    /\ stored = NoStored /\ touched = {}
    /\ abort = FALSE /\ quit = FALSE /\ slot = [w \in Workers |-> Idle]
    /\ statsq = [soft |-> 0, scan |-> 0] /\ gcq = <<>> /\ delivered = 0
    /\ wlast = [op |-> "none"] /\ hard = FALSE /\ walkres = "running"
    /\ todo = <<>> /\ rx = <<>> /\ rxopen = TRUE
    /\ links \in PipeLinks /\ dirs = DirsOf(links) /\ links0 = links
    /\ seen = {} /\ rstage = "loop" /\ rnext = 1
    /\ counts = [cleaned |-> 0, registered |-> 0]
    /\ \E list, reg \in BOOLEAN :
        prog = [stage |-> "create", list |-> list, regarg |-> reg,
                register |-> AppRegister(list, reg), ret |-> "none"]
    /\ procs = <<>> /\ flock = {} /\ ScanIdle /\ PrivIdle
    /\ stats = StatisticsNew(FALSE) /\ srx = <<>> /\ sproc = <<>>
    /\ sstage = "off" /\ pending = {}
    /\ hist = [disk0 |-> disk, inserted |-> {}, failed |-> {}, scans |-> {}]

\* ProcessingContext::create and the two spawns (walk.rs:109-113).  A
\* failure returns from spawn_threads and drops the sender it was given.
PipeCreate ==
    /\ prog.stage = "create"
    /\ \/ /\ \E e \in {MkErr("io", "NotFound"), MkErr("UErr", "LoadCache")} :
                prog' = Returned(prog, Err(e))
          /\ rxopen' = FALSE
          /\ UNCHANGED <<cache, pending, sstage>>
       \/ /\ CacheOpenFile(cache, disk).ok
          /\ cache' = CacheOpenFile(cache, disk).val
          /\ pending' = {StartDir}
          /\ sstage' = "loop"
          /\ prog' = [prog EXCEPT !.stage = "scope"]
          /\ UNCHANGED rxopen
    /\ UNCHANGED <<disk, walkVars, todo, rx, links, dirs, seen, rstage, counts,
                   stats, srx, sproc, hist, pipeFixed>>

\* What the closure makes of the result of scan_entry (walk.rs:74-93), and
\* the walker of what the closure returns
Finish(w, res, nsoft, step) ==
    LET cl == Closure(res)
    IN /\ abort' = (abort \/ cl.abort)
       /\ quit' = (quit \/ cl.ws = "Quit")
       /\ hard' = (hard \/ cl.ws = "Quit")
       /\ srx' = srx \o [i \in 1..(nsoft + cl.soft) |-> SoftErrorMsg]
       /\ pending' = pending \cup
            (IF slot[w].dent.ftype = "dir" /\ cl.ws = "Continue"
             THEN Children(slot[w].path) ELSE {})
       /\ slot' = [slot EXCEPT ![w] = Idle]
       /\ wlast' = [op |-> "entry", w |-> w, path |-> slot[w].path,
                    res |-> res, step |-> step, ws |-> cl.ws]

\* A worker is handed an entry and runs cache.lookup (walk.rs:44)
PipeTake(w) ==
    /\ prog.stage = "scope" /\ walkres = "running" /\ ~quit
    /\ slot[w] = Idle
    /\ \E path \in pending :
        LET lk == CacheLookup(cache, PipeDent(path))
        IN /\ cache' = lk.cache
           /\ pending' = pending \ {path}
           /\ slot' = [slot EXCEPT ![w] =
                [kind |-> lk.kind, path |-> path, dent |-> PipeDent(path),
                 sp |-> IF lk.kind = "Miss" THEN <<>> ELSE lk.sp,
                 at |-> IF lk.kind = "Miss" THEN "scan" ELSE "insert"]]
    /\ delivered' = delivered + 1
    /\ UNCHANGED <<disk, abort, quit, gcq, wlast, hard, walkres, todo, rx,
                   rxopen, links, dirs, seen, rstage, counts, prog, stats, srx,
                   sproc, sstage, hist, pipeFixed>>

\* The scanner runs on a Miss (walk.rs:46)
PipeScan(w) ==
    /\ slot[w] # Idle /\ slot[w].at = "scan"
    /\ \E sr \in FindPaths(slot[w].dent) :
        IF sr.ok
        THEN /\ slot' = [slot EXCEPT ![w].sp = sr.val, ![w].at = "insert"]
             /\ UNCHANGED <<abort, quit, hard, srx, pending, wlast>>
        ELSE Finish(w, Err(sr.err), 0, "scan")
    /\ UNCHANGED <<cache, disk, gcq, delivered, walkres, todo, rx, rxopen,
                   links, dirs, seen, rstage, counts, prog, stats, sproc,
                   sstage, hist, pipeFixed>>

\* (mutant of scan_entry: the result of cache.insert is dropped)
PipeInsertIgnoringFailure(w) ==
    /\ slot[w] # Idle /\ slot[w].at = "insert"
    /\ LET sp == slot[w].sp
           soft == IF sp.dent.err = "partial" THEN 1 ELSE 0
           m == SpMetadata(sp)
           ins == CacheInsert(cache, m.sp)
       IN IF sp.dent.err = "hard"
          THEN /\ Finish(w, Err(MkErr("ignore", "hard")), 0, "gate")
               /\ UNCHANGED <<cache, hist>>
          ELSE IF ~m.res.ok
          THEN /\ Finish(w, Err(m.res.err), soft, "meta")
               /\ UNCHANGED <<cache, hist>>
          ELSE IF m.res.val.dev # StartDev
          THEN /\ Finish(w, Ok("Skip"), soft, "dev")
               /\ UNCHANGED <<cache, hist>>
          ELSE /\ cache' = ins.cache
               /\ slot' = [slot EXCEPT ![w].sp = ins.sp, ![w].at = "stats"]
               /\ srx' = srx \o [i \in 1..soft |-> SoftErrorMsg]
               /\ hist' = IF ins.res.ok
                          THEN [hist EXCEPT !.inserted = @ \cup {slot[w].path}]
                          ELSE [hist EXCEPT !.failed = @ \cup {slot[w].path}]
               /\ UNCHANGED <<abort, quit, hard, pending, wlast>>
    /\ UNCHANGED <<disk, gcq, delivered, walkres, todo, rx, rxopen, links,
                   dirs, seen, rstage, counts, prog, stats, sproc, sstage,
                   pipeFixed>>

\* The entry's error, its device and cache.insert (walk.rs:48-59)
PipeInsert(w) ==
    /\ slot[w] # Idle /\ slot[w].at = "insert"
    /\ LET sp == slot[w].sp
           soft == IF sp.dent.err = "partial" THEN 1 ELSE 0
           m == SpMetadata(sp)
           ins == CacheInsert(cache, m.sp)
       IN IF sp.dent.err = "hard"
          THEN /\ Finish(w, Err(MkErr("ignore", "hard")), 0, "gate")
               /\ UNCHANGED <<cache, hist>>
          ELSE IF ~m.res.ok
          THEN /\ Finish(w, Err(m.res.err), soft, "meta")
               /\ UNCHANGED <<cache, hist>>
          ELSE IF m.res.val.dev # StartDev
          THEN /\ Finish(w, Ok("Skip"), soft, "dev")
               /\ UNCHANGED <<cache, hist>>
          ELSE IF ~ins.res.ok
          THEN /\ Finish(w, Err(WithContext(ins.res.err, "WalkAbort")),
                         soft, "insert")
               /\ hist' = [hist EXCEPT !.failed = @ \cup {slot[w].path}]
               /\ UNCHANGED cache
          ELSE /\ cache' = ins.cache
               /\ slot' = [slot EXCEPT ![w].sp = ins.sp, ![w].at = "stats"]
               /\ srx' = srx \o [i \in 1..soft |-> SoftErrorMsg]
               /\ hist' = [hist EXCEPT !.inserted = @ \cup {slot[w].path}]
               /\ UNCHANGED <<abort, quit, hard, pending, wlast>>
    /\ UNCHANGED <<disk, gcq, delivered, walkres, todo, rx, rxopen, links,
                   dirs, seen, rstage, counts, prog, stats, sproc, sstage,
                   pipeFixed>>

\* stats.send(StatsMsg::Scan) (walk.rs:60)
PipeStats(w) ==
    /\ slot[w] # Idle /\ slot[w].at = "stats"
    /\ srx' = Append(srx, FileFrom(slot[w].sp))
    /\ slot' = [slot EXCEPT ![w].at = "gc"]
    /\ hist' = [hist EXCEPT !.scans = @ \cup {slot[w].path}]
    /\ UNCHANGED <<cache, disk, abort, quit, gcq, delivered, wlast, hard,
                   walkres, todo, rx, rxopen, links, dirs, seen, rstage,
                   counts, prog, stats, sproc, sstage, pending, pipeFixed>>

\* gc.send of a StorePaths with references, and Ok(Continue)
\* (walk.rs:61-64)
PipeGcSend(w) ==
    /\ slot[w] # Idle /\ slot[w].at = "gc"
    /\ LET sp == slot[w].sp
       IN /\ rx' = IF SpIsEmpty(sp) THEN rx
                   ELSE Append(rx, RegSP(slot[w].path, sp.refs))
          /\ gcq' = IF SpIsEmpty(sp) THEN gcq
                    ELSE Append(gcq, RegSP(slot[w].path, sp.refs))
    /\ Finish(w, Ok("Continue"), 0, "end")
    /\ UNCHANGED <<cache, disk, delivered, walkres, todo, rxopen, links, dirs,
                   seen, rstage, counts, prog, stats, sproc, sstage, hist,
                   pipeFixed>>

\* (mutant of walk: the context and its senders outlive the walk)
PipeWalkReturnKeepingSenders ==
    /\ prog.stage = "scope" /\ walkres = "running"
    /\ \A w \in Workers : slot[w] = Idle
    /\ pending = {} \/ quit
    /\ walkres' = WalkResult(abort)
    /\ UNCHANGED <<cacheVars, abort, quit, slot, statsq, gcq, delivered, wlast,
                   hard, regVars, sysVars, scanVars, privVars, pipeVars>>

\* walker.run is over: walk reads abort and returns; the context and the
\* clones the workers held are dropped, and with them every sender of both
\* channels (walk.rs:68-100)
PipeWalkReturn ==
    /\ prog.stage = "scope" /\ walkres = "running"
    /\ \A w \in Workers : slot[w] = Idle
    /\ pending = {} \/ quit
    /\ walkres' = WalkResult(abort)
    /\ rxopen' = FALSE
    /\ UNCHANGED <<cacheVars, abort, quit, slot, statsq, gcq, delivered, wlast,
                   hard, todo, rx, links, dirs, seen, rstage, rnext, counts,
                   links0, sysVars, scanVars, privVars, pipeVars>>

\* One turn of Statistics::receive_loop (statistics.rs:151-156)
PipeStatsReceive ==
    /\ sstage = "loop" /\ srx # <<>>
    /\ stats' = Process(stats, Head(srx))
    /\ sproc' = Append(sproc, Head(srx))
    /\ srx' = Tail(srx)
    /\ UNCHANGED <<cacheVars, walkVars, regVars, sysVars, scanVars, privVars,
                   sstage, pending, hist>>

\* receive_loop returns when the channel is closed and empty
PipeStatsReturn ==
    /\ sstage = "loop" /\ srx = <<>> /\ ~rxopen
    /\ sstage' = "returned"
    /\ UNCHANGED <<cacheVars, walkVars, regVars, sysVars, scanVars, privVars,
                   stats, srx, sproc, pending, hist>>

\* One turn of register_loop on the thread of spawn_threads: GCRoots
\* buffers the StorePaths (registry.rs:69-74), NullGCRoots prints it
\* (registry.rs:223-229)
PipeRegisterLoop ==
    /\ prog.stage = "scope" /\ rx # <<>>
    /\ rx' = Tail(rx)
    /\ todo' = IF prog.register THEN Append(todo, Head(rx)) ELSE todo
    /\ UNCHANGED <<cacheVars, walkVars, rxopen, links, dirs, seen, rstage,
                   rnext, counts, links0, sysVars, scanVars, privVars, pipeVars>>

\* register_loop returns when the channel is closed and empty
PipeRegisterReturn ==
    /\ prog.stage = "scope" /\ rx = <<>> /\ ~rxopen
    /\ prog' = [prog EXCEPT !.stage = "join"]
    /\ UNCHANGED <<cacheVars, walkVars, regVars, procs, flock, scanVars,
                   privVars, pipeVars>>

\* (mutant of spawn_threads: both commits run whatever app.register says)
PipeJoinAlwaysCommitting ==
    /\ prog.stage = "join" /\ walkres # "running" /\ sstage = "returned"
    /\ prog' = IF walkres # "Ok"
               THEN Returned(prog, Err(MkErr("UErr", "WalkAbort")))
               ELSE [prog EXCEPT !.stage = "gccommit"]
    /\ UNCHANGED <<cacheVars, walkVars, regVars, procs, flock, scanVars,
                   privVars, pipeVars>>

\* (mutant of spawn_threads: the result of the walk is not looked at)
PipeJoinIgnoringAbort ==
    /\ prog.stage = "join" /\ walkres # "running" /\ sstage = "returned"
    /\ prog' = IF prog.register THEN [prog EXCEPT !.stage = "gccommit"]
               ELSE Returned(prog, Ok("stats"))
    /\ UNCHANGED <<cacheVars, walkVars, regVars, procs, flock, scanVars,
                   privVars, pipeVars>>

\* walk_hdl.join() and the end of the scope, which waits for the statistics
\* thread; an error of the walk leaves spawn_threads, and without
\* app.register so does its success (walk.rs:115-118, 126-127)
PipeJoin ==
    /\ prog.stage = "join" /\ walkres # "running" /\ sstage = "returned"
    /\ prog' = IF walkres # "Ok"
               THEN Returned(prog, Err(MkErr("UErr", "WalkAbort")))
               ELSE IF prog.register THEN [prog EXCEPT !.stage = "gccommit"]
               ELSE Returned(prog, Ok("stats"))
    /\ UNCHANGED <<cacheVars, walkVars, regVars, procs, flock, scanVars,
                   privVars, pipeVars>>

\* gcroots.commit (walk.rs:119, registry.rs:76-99): cleanup, then register
\* for every buffered StorePaths
PipeGcCommit ==
    /\ prog.stage = "gccommit"
    /\ \E o \in Cleanup([links |-> links, dirs |-> dirs, seen |-> {}]) :
        LET r == IF o.res.ok THEN RegisterAll(o.st, todo) ELSE o
            ok == o.res.ok /\ r.res.ok
        IN /\ links' = r.st.links /\ dirs' = r.st.dirs /\ seen' = r.st.seen
           /\ rstage' = IF ok THEN "done" ELSE "failed"
           /\ counts' = IF ok THEN [cleaned |-> o.res.val,
                                    registered |-> r.res.val]
                        ELSE counts
           /\ prog' = IF ok THEN [prog EXCEPT !.stage = "cachecommit"]
                      ELSE Returned(prog, Err(r.res.err))
    /\ UNCHANGED <<cacheVars, walkVars, todo, rx, rxopen, rnext, links0, procs,
                   flock, scanVars, privVars, pipeVars>>

\* cache.commit (walk.rs:121-123); then the statistics are returned
PipeCacheCommit ==
    /\ prog.stage = "cachecommit"
    /\ LET r == CacheCommit(cache)
       IN /\ cache' = r.cache
          /\ \E saved \in (IF r.save THEN BOOLEAN ELSE {TRUE}) :
               /\ IF r.save
                  THEN IF saved THEN disk' \in CacheMapSave(r.cache.map)
                       ELSE disk' \in {disk, <<>>}
                  ELSE disk' = disk
               /\ prog' = IF saved THEN Returned(prog, Ok("stats"))
                          ELSE Returned(prog, Err(MkErr("UErr", "SaveCache")))
    /\ UNCHANGED <<cstage, nops, clast, stored, touched, walkVars, regVars,
                   procs, flock, scanVars, privVars, pipeVars>>

NextPipe ==
    \/ PipeCreate
    \/ \E w \in Workers : PipeTake(w)
    \/ \E w \in Workers : PipeScan(w)
    \/ \E w \in Workers : PipeInsert(w)
    \/ \E w \in Workers : PipeStats(w)
    \/ \E w \in Workers : PipeGcSend(w)
    \/ PipeWalkReturn
    \/ PipeStatsReceive
    \/ PipeStatsReturn
    \/ PipeRegisterLoop
    \/ PipeRegisterReturn
    \/ PipeJoin
    \/ PipeGcCommit
    \/ PipeCacheCommit

SpecPipe == InitPipe /\ [][NextPipe]_vars

\* Every thread is scheduled again and again: a step that can be taken is
\* taken at some time
FairPipe == SpecPipe /\ WF_vars(NextPipe)

----------------------------------------------------------------------------
(* Claims about the pipeline *)

Terminated ==
    /\ prog.stage = "returned"
    /\ \A w \in Workers : slot[w] = Idle
    /\ ~rxopen /\ rx = <<>> /\ srx = <<>>
    /\ sstage \in {"off", "returned"}
    /\ sstage = "returned" => walkres # "running"

\* C32: every run of the pipeline on the tree, which holds a symlink that
\* points back to its directory, ends: the walk returns, the senders are
\* dropped, receive_loop and register_loop return and spawn_threads
\* returns.
C32_PipelineTerminates == <>Terminated

\* C32 witness: the whole tree, the symlink included, was walked without
\* a soft error and without a reference, and everything has ended
C32_Witness ==
    /\ Terminated /\ walkres = "Ok" /\ pending = {}
    /\ delivered = Cardinality(PipePaths) /\ hist.scans = PipePaths
    /\ stats.softerrors = 0 /\ gcq = <<>>

\* C33: a Scan message is sent only for an entry whose cache insert has
\* returned Ok, and a StorePaths goes to the GC channel only after its Scan
\* message; when it is sent the map holds the line of its inode with its
\* references; an entry whose insert failed sends neither.
C33_InsertBeforeSends ==
    /\ [](hist.scans \subseteq hist.inserted)
    /\ [](\A i \in 1..Len(gcq) : gcq[i].path \in hist.scans)
    /\ [](hist.failed \cap (hist.scans \cup {gcq[i].path : i \in 1..Len(gcq)})
            = {})
    /\ [][gcq' # gcq =>
            LET sent == gcq'[Len(gcq')]
                ino == PipeDent(sent.path).ino
            IN /\ gcq' = Append(gcq, sent)
               /\ ino \in DOMAIN cache.map
               /\ cache.map[ino].refs = sent.refs
               /\ cache.map[ino].used]_vars
    /\ [][hist'.failed # hist.failed => (srx' = srx /\ gcq' = gcq)]_vars

\* C33 witness: one entry was inserted and sent on, the insert of another
\* one failed
C33_Witness ==
    /\ hist.failed # {} /\ gcq # <<>> /\ hist.inserted # {}
    /\ wlast.op = "entry" /\ wlast.step = "insert"

\* C37: once abort is set no link and no directory is created or removed
\* and the cache file is not written, although register_loop goes on
\* buffering; spawn_threads returns the error of the walk and neither
\* commit has run.
C37_AbortSkipsCommits ==
    /\ abort =>
        /\ links = links0 /\ dirs = DirsOf(links0)
        /\ disk = hist.disk0
        /\ rstage = "loop"
    /\ (abort /\ prog.stage = "returned") =>
        prog.ret = Err(MkErr("UErr", "WalkAbort"))

\* C37 witness: the walk was aborted in a registering run that had
\* buffered a StorePaths, had lines to save and a link to clean up
C37_Witness ==
    /\ prog.stage = "returned" /\ abort /\ prog.register
    /\ todo # <<>> /\ cache.dirty
    /\ links0[<<"/start", "hashB">>].kind = "symlink"

----------------------------------------------------------------------------
(* SpecLock: two processes and one cache file *)

Procs == {"p1", "p2"}

\* (mutant of open_locked: the file is opened without flock)
OpenLockedWithoutFlock(holders, p) ==
    [res |-> Ok("file"), holders |-> holders \cup {p}]

\* open_locked (cachemap.rs:59-69): LockExclusiveNonblock fails at once if
\* another open file holds the lock; the file is created, never truncated
OpenLocked(holders, p) ==
    IF holders \ {p} # {}
    THEN [res |-> Err(MkErr("cachemap", "Lock")), holders |-> holders]
    ELSE [res |-> Ok("file"), holders |-> holders \cup {p}]

\* Cache::open (storepaths/cache.rs:37-58) given what open_locked returned
CacheOpen(c, locked, b) ==
    IF ~locked.ok THEN Err(WithContext(locked.err, "LoadCache"))
    ELSE CacheOpenFile(c, b)

\* StorePaths the processes insert
LockSPs == {sp \in ScannedSPs : sp.dent.ctime = 10 /\ sp.dent.nsec = 5}

InitLock ==
    /\ cache = CacheNew(0) /\ disk \in DiskInit /\ cstage = "run" /\ nops = 0
    /\ clast = [op |-> "none"] /\ stored = NoStored /\ touched = {}
    /\ WalkIdle /\ RegIdle
    /\ prog = [stage |-> "off"]
    /\ procs = [p \in Procs |-> [st |-> "init", cache |-> CacheNew(0)]]
    /\ flock = {} /\ ScanIdle /\ PrivIdle /\ PipeIdle

\* A process starts and opens the cache file
LOpen(p) ==
    /\ procs[p].st = "init"
    /\ LET l == OpenLocked(flock, p)
           r == CacheOpen(procs[p].cache, l.res, disk)
       IN /\ flock' = l.holders
          /\ procs' = [procs EXCEPT ![p] =
                IF r.ok THEN [st |-> "open", cache |-> r.val]
                ELSE [st |-> "failed", cache |-> @.cache, err |-> r.err]]
    /\ UNCHANGED <<cacheVars, walkVars, regVars, scanVars, privVars, prog, pipeVars>>

LInsert(p) ==
    /\ procs[p].st = "open" /\ nops < MaxOps
    /\ \E sp \in LockSPs :
        procs' = [procs EXCEPT ![p].cache = CacheInsert(@, sp).cache]
    /\ nops' = nops + 1
    /\ UNCHANGED <<cache, disk, cstage, clast, stored, touched, walkVars,
                   regVars, scanVars, privVars, prog, flock, pipeVars>>

\* Cache::commit by the process that has the file open
LCommit(p) ==
    /\ procs[p].st = "open"
    /\ LET r == CacheCommit(procs[p].cache)
       IN /\ procs' = [procs EXCEPT ![p].cache = r.cache]
          /\ IF r.save THEN disk' \in CacheMapSave(r.cache.map)
             ELSE disk' = disk
    /\ UNCHANGED <<cache, cstage, nops, clast, stored, touched, walkVars,
                   regVars, scanVars, privVars, prog, flock, pipeVars>>

\* The process ends; closing the file releases its lock
LExit(p) ==
    /\ procs[p].st \in {"open", "failed"}
    /\ procs' = [procs EXCEPT ![p] = [st |-> "exited", cache |-> CacheNew(0)]]
    /\ flock' = flock \ {p}
    /\ UNCHANGED <<cacheVars, walkVars, regVars, scanVars, privVars, prog, pipeVars>>

NextLock ==
    \/ \E p \in Procs : LOpen(p)
    \/ \E p \in Procs : LInsert(p)
    \/ \E p \in Procs : LCommit(p)
    \/ \E p \in Procs : LExit(p)

SpecLock == InitLock /\ [][NextLock]_vars

\* C12: at most one process holds the lock of the cache file, and only a
\* holder has the cache open; an open while another process holds the lock
\* returns a Lock error in the same step and leaves file and lock alone.
C12_ExclusiveLock ==
    /\ [](Cardinality(flock) <= 1)
    /\ [](\A p \in Procs : procs[p].st = "open" => p \in flock)
    /\ [][\A p \in Procs :
            (procs[p].st = "init" /\ procs'[p].st # "init" /\ flock \ {p} # {})
            => /\ procs'[p].st = "failed"
               /\ procs'[p].err.kind = "Lock"
               /\ disk' = disk
               /\ flock' = flock]_vars

\* C12 witness: one process has the cache open with a line in it, the other
\* one's open failed
C12_Witness ==
    /\ procs["p1"].st = "open" /\ DOMAIN procs["p1"].cache.map # {}
    /\ procs["p2"].st = "failed" /\ flock = {"p1"}

----------------------------------------------------------------------------
(* Scanner (scan.rs) in detail: the bytes of an entry and the strategies   *)

\* MIN_STOREREF_LEN (scan.rs:26)
MIN_STOREREF_LEN == 45
\* length of the literal b"/nix/store/" (scan.rs:61)
LiteralLen == 11
\* length of a match of STORE_RE (scan.rs:21-24) with a name of one
\* character: the literal, 32 hash characters, `-` and the name
RefLen == 45

MaxChunks == 2      \* pieces the bytes of a file or link target are made of

\* Bytes are written as pieces: filler that holds nothing of a store path,
\* the bare literal /nix/store/ that no hash follows, and a whole reference
Fill(n) == [k |-> "fill", len |-> n, ref |-> <<>>]
Lit == [k |-> "lit", len |-> LiteralLen, ref |-> <<>>]
RefChunk(r) == [k |-> "ref", len |-> RefLen, ref |-> r]

Chunks ==
    {Fill(1), Fill(34), Fill(44), Fill(45), Lit} \cup {RefChunk(r) : r \in Refs}

SeqsUpTo(S, n) == UNION {[1..k -> S] : k \in 0..n}
Contents == SeqsUpTo(Chunks, MaxChunks)

RECURSIVE ContentLen(_)
ContentLen(c) ==
    IF c = <<>> THEN 0 ELSE c[1].len + ContentLen(Tail(c))

\* twoway::find_bytes(&buf[0..n], b"/nix/store/").is_some() (scan.rs:61):
\* an occurrence of the literal ends within the first n bytes
FindLiteral(c, n) ==
    \E k \in 1..Len(c) :
        /\ c[k].k # "fill"
        /\ ContentLen(SubSeq(c, 1, k - 1)) + LiteralLen <= n

\* STORE_RE.captures_iter(buf) mapped to group 1 (scan.rs:71-74): the
\* references in the order they occur, repeated ones included
CapturesIter(c) ==
    LET hits == SelectSeq(c, LAMBDA x : x.k = "ref")
    IN [i \in 1..Len(hits) |-> hits[i].ref]

\* Ord of the references as PathBuf: they are single path components, so
\* they compare as their bytes do
RefOrder == <<RefA1, RefA2, RefB1>>
RefRank(r) == CHOOSE i \in 1..Len(RefOrder) : RefOrder[i] = r

\* Vec::sort (scan.rs:186)
RECURSIVE SortRefs(_)
SortRefs(refs) ==
    IF refs = <<>> THEN <<>>
    ELSE LET r == refs[Len(refs)]
             s == SortRefs(SubSeq(refs, 1, Len(refs) - 1))
             k == Cardinality({i \in 1..Len(s) : RefRank(s[i]) <= RefRank(r)})
         IN SubSeq(s, 1, k) \o <<r>> \o SubSeq(s, k + 1, Len(s))

\* Vec::dedup (scan.rs:187): of equal neighbours the first one stays
RECURSIVE DedupRefs(_)
DedupRefs(refs) ==
    IF Len(refs) <= 1 THEN refs
    ELSE LET d == DedupRefs(SubSeq(refs, 1, Len(refs) - 1))
         IN IF refs[Len(refs)] = refs[Len(refs) - 1] THEN d
            ELSE Append(d, refs[Len(refs)])

\* ScanResult (scan.rs:28-32) and whether Mmap::open_path was called
Scanned(refs, bytes, mapped) ==
    [res |-> Ok([refs |-> refs, bytes_scanned |-> bytes]), mmap |-> mapped]
ScanFailed(e, mapped) == [res |-> Err(e), mmap |-> mapped]

\* An entry to scan: the DirEntry, the bytes of the file (of the target for
\* a symlink), how opening or mapping it ends, whether its path matches an
\* unzip glob, and what the ZIP reader makes of it: "none" for bytes it
\* rejects as InvalidArchive or UnsupportedArchive, "badmember" for an
\* archive one member of which cannot be read, "ok" with the members' bytes
ScanFile(dent, content, openerr, unzip, zip, members) ==
    [dent |-> dent, content |-> content, openerr |-> openerr, unzip |-> unzip,
     zip |-> zip, members |-> members]

\* (mutant of scan_regular_quickcheck: the prefix check is made even when
\* quickcheck is 0)
ScanRegularQuickcheckAlways(f, quickcheck) ==
    IF f.openerr # "none" THEN ScanFailed(MkErr("io", f.openerr), TRUE)
    ELSE IF ContentLen(f.content) = 0
    THEN ScanFailed(MkErr("io", "InvalidInput"), TRUE)
    ELSE IF /\ ContentLen(f.content) > quickcheck
            /\ ~FindLiteral(f.content, quickcheck)
    THEN Scanned(<<>>, quickcheck, TRUE)
    ELSE Scanned(CapturesIter(f.content), ContentLen(f.content), TRUE)

\* scan_regular_quickcheck (scan.rs:51-78).  Mapping fails if the file
\* cannot be opened and for a file of length 0.
ScanRegularQuickcheck(f, quickcheck) ==
    IF f.openerr # "none" THEN ScanFailed(MkErr("io", f.openerr), TRUE)
    ELSE IF ContentLen(f.content) = 0
    THEN ScanFailed(MkErr("io", "InvalidInput"), TRUE)
    ELSE IF /\ quickcheck > 0
            /\ ContentLen(f.content) > quickcheck
            /\ ~FindLiteral(f.content, quickcheck)
    THEN Scanned(<<>>, quickcheck, TRUE)
    ELSE Scanned(CapturesIter(f.content), ContentLen(f.content), TRUE)

\* scan_regular (scan.rs:80-93)
ScanRegular(f, quickcheck) ==
    IF ~f.dent.metaok THEN ScanFailed(MkErr("ignore", "Io"), FALSE)
    ELSE IF ContentLen(f.content) < MIN_STOREREF_LEN
    THEN Scanned(<<>>, ContentLen(f.content), FALSE)
    ELSE ScanRegularQuickcheck(f, quickcheck)

\* The loop over the members (scan.rs:112-119): buf is never emptied, so
\* the regex runs over all members read so far each time
RECURSIVE ReadToEnd(_, _)
ReadToEnd(members, n) ==
    IF n = 0 THEN <<>> ELSE ReadToEnd(members, n - 1) \o members[n]

RECURSIVE ZipRefs(_, _)
ZipRefs(members, n) ==
    IF n = 0 THEN <<>>
    ELSE ZipRefs(members, n - 1) \o CapturesIter(ReadToEnd(members, n))

\* scan_zip_archive (scan.rs:95-126)
ScanZipArchive(f) ==
    IF ~f.dent.metaok THEN ScanFailed(MkErr("ignore", "Io"), FALSE)
    ELSE IF f.openerr # "none" THEN ScanFailed(MkErr("io", f.openerr), FALSE)
    ELSE IF f.zip = "none" THEN ScanRegularQuickcheck(f, 0)
    ELSE IF f.zip = "badmember"
    THEN ScanFailed(MkErr("zip", "InvalidArchive"), FALSE)
    ELSE Scanned(ZipRefs(f.members, Len(f.members)), ContentLen(f.content),
                 FALSE)

\* (mutant of scan_symlink: every match in the target is returned)
ScanSymlinkAllMatches(f) ==
    IF ~f.dent.metaok THEN ScanFailed(MkErr("ignore", "Io"), FALSE)
    ELSE IF f.openerr # "none" THEN ScanFailed(MkErr("io", f.openerr), FALSE)
    ELSE Scanned(CapturesIter(f.content), ContentLen(f.content), FALSE)

\* scan_symlink (scan.rs:128-141): the first match in the target, if any
ScanSymlink(f) ==
    IF ~f.dent.metaok THEN ScanFailed(MkErr("ignore", "Io"), FALSE)
    ELSE IF f.openerr # "none" THEN ScanFailed(MkErr("io", f.openerr), FALSE)
    ELSE LET caps == CapturesIter(f.content)
         IN Scanned(IF caps = <<>> THEN <<>> ELSE <<caps[1]>>,
                    ContentLen(f.content), FALSE)

\* Scanner (scan.rs:36-41)
ScannerNew(quickcheck, unzip) == [quickcheck |-> quickcheck, unzip |-> unzip]

\* scan_inode (scan.rs:149-162); f.unzip says that the unzip globs are not
\* empty and whitelist the path.  None is written as "none".
ScanInode(sc, f) ==
    IF f.dent.ftype = "file"
    THEN IF sc.unzip /\ f.unzip THEN ScanZipArchive(f)
         ELSE ScanRegular(f, sc.quickcheck)
    ELSE IF f.dent.ftype = "symlink" THEN ScanSymlink(f)
    ELSE "none"

\* Scanner::scan (scan.rs:168-182); chain_err puts the path around a failure
ScannerScan(sc, f) ==
    IF f.dent.err = "hard" THEN ScanFailed(MkErr("Msg", "dent error"), FALSE)
    ELSE LET r == ScanInode(sc, f)
         IN IF f.dent.ftype \in {"file", "symlink"}
            THEN IF r.res.ok THEN r
                 ELSE ScanFailed(WithContext(r.res.err, "Msg"), r.mmap)
            ELSE ScanFailed(MkErr("UErr", "WalkContinue"), FALSE)

\* (mutant of find_paths: the references are left as the scan found them)
ScannerFindPathsRaw(sc, f) ==
    LET r == ScannerScan(sc, f)
    IN IF ~r.res.ok THEN r
       ELSE [res |-> Ok(StorePathsNew(f.dent, r.res.val.refs,
                                      r.res.val.bytes_scanned, Meta(f.dent))),
             mmap |-> r.mmap]

\* Scanner::find_paths (scan.rs:184-190)
ScannerFindPaths(sc, f) ==
    LET r == ScannerScan(sc, f)
    IN IF ~r.res.ok THEN r
       ELSE [res |-> Ok(StorePathsNew(f.dent,
                                      DedupRefs(SortRefs(r.res.val.refs)),
                                      r.res.val.bytes_scanned, Meta(f.dent))),
             mmap |-> r.mmap]

----------------------------------------------------------------------------
(* SpecScan: one entry is scanned, taken into the cache and looked up      *)

\* --quickcheck settings: off, the shortest reference, and a longer prefix
Quickchecks == {0, 45, 56}

Scanners == {ScannerNew(q, u) : q \in Quickchecks, u \in BOOLEAN}

ScanDent(ftype, metaok, err) == MkDent(ftype, 1, metaok, StartDev, 10, 5, err)

\* Bytes of the members of a readable archive
ZipMembers ==
    SeqsUpTo({<<RefChunk(r)>> : r \in Refs} \cup {<<Fill(1)>>}, MaxChunks)

\* Entries given to the scanner: plain files and symlinks of any content,
\* readable or not; files matching an unzip glob that hold plain data, a
\* readable archive or a damaged one; a directory; a failed entry
ScanFiles ==
    {ScanFile(ScanDent(ft, mo, "none"), c, oe, FALSE, "none", <<>>) :
        ft \in {"file", "symlink"}, mo \in BOOLEAN, c \in Contents,
        oe \in {"none", "PermissionDenied"}}
    \cup {ScanFile(ScanDent("file", TRUE, "none"), c, "none", TRUE, "none", <<>>) :
            c \in Contents}
    \cup {ScanFile(ScanDent("file", TRUE, "none"), c, "none", TRUE, z, ms) :
            c \in {<<Fill(34)>>, <<Fill(45), Fill(45)>>},
            z \in {"ok", "badmember"}, ms \in ZipMembers}
    \cup {ScanFile(ScanDent("dir", TRUE, "none"), <<>>, "none", FALSE, "none", <<>>),
          ScanFile(ScanDent("file", TRUE, "hard"), <<>>, "none", FALSE, "none", <<>>)}

\* What a symlink points to: an existing file, nothing, or itself through
\* other links.  The walker does not follow links (main.rs:98), so the entry
\* and its metadata are those of the link whatever the target is.
LinkTargets == {"exists", "dangling", "cycle"}

InitScan ==
    /\ cache = CacheNew(0) /\ disk = <<>> /\ cstage = "run" /\ nops = 0
    /\ clast = [op |-> "none"] /\ stored = NoStored /\ touched = {}
    /\ WalkIdle /\ RegIdle /\ SysIdle /\ PrivIdle /\ PipeIdle
    /\ \E sc \in Scanners, f \in ScanFiles :
        \E t \in (IF f.dent.ftype = "symlink" THEN LinkTargets ELSE {"none"}) :
            scanin = [op |-> "entry", sc |-> sc, f |-> f, target |-> t]
    /\ scanout = [op |-> "none"]

\* Scanner::find_paths on the entry (walk.rs:47, after a Miss)
SFind ==
    /\ scanin.op = "entry" /\ scanout.op = "none"
    /\ scanout' = [op |-> "found",
                   out |-> ScannerFindPaths(scanin.sc, scanin.f)]
    /\ UNCHANGED <<cacheVars, walkVars, regVars, sysVars, privVars, scanin, pipeVars>>

\* The rest of scan_entry (walk.rs:48-65) and the walker closure around it
SEntry ==
    /\ scanout.op = "found"
    /\ LET o == ScanEntry(cache, [kind |-> "Miss"], scanout.out.res)
           cl == Closure(o.res)
       IN /\ cache' = o.cache
          /\ scanout' = [op |-> "entered", out |-> scanout.out,
                         soft |-> o.soft + cl.soft, abort |-> cl.abort,
                         ws |-> cl.ws]
    /\ UNCHANGED <<disk, cstage, nops, clast, stored, touched, walkVars,
                   regVars, sysVars, privVars, scanin, pipeVars>>

\* The entry is met again: Cache::lookup (walk.rs:45)
SLookup ==
    /\ scanout.op = "entered"
    /\ LET lk == CacheLookup(cache, scanin.f.dent)
       IN /\ cache' = lk.cache
          /\ scanout' = [op |-> "looked", out |-> scanout.out,
                         soft |-> scanout.soft, abort |-> scanout.abort,
                         ws |-> scanout.ws, kind |-> lk.kind,
                         refs |-> IF lk.kind = "Miss" THEN <<>> ELSE lk.sp.refs]
    /\ UNCHANGED <<disk, cstage, nops, clast, stored, touched, walkVars,
                   regVars, sysVars, privVars, scanin, pipeVars>>

NextScan ==
    \/ SFind
    \/ SEntry
    \/ SLookup

SpecScan == InitScan /\ [][NextScan]_vars

\* The references of a list are in ascending order, none of them twice
StrictlySorted(refs) ==
    \A i, j \in 1..Len(refs) : i < j => RefRank(refs[i]) < RefRank(refs[j])

\* The entry is a file with readable metadata that the scanner hands to
\* scan_regular / to scan_zip_archive
RegularScanned ==
    /\ scanin.f.dent.ftype = "file" /\ scanin.f.dent.err = "none"
    /\ scanin.f.dent.metaok /\ ~(scanin.sc.unzip /\ scanin.f.unzip)
ZipScanned ==
    /\ scanin.f.dent.ftype = "file" /\ scanin.f.dent.err = "none"
    /\ scanin.f.dent.metaok /\ scanin.sc.unzip /\ scanin.f.unzip

\* C17: whatever the entry and the strategy, the references find_paths
\* returns are sorted and free of duplicates, and so are those of a Hit on
\* the cache line inserted from that result.
C17_RefsSortedDeduped ==
    /\ (scanout.op # "none" /\ scanout.out.res.ok)
        => StrictlySorted(scanout.out.res.val.refs)
    /\ (scanout.op = "looked" /\ scanout.kind = "Hit")
        => /\ StrictlySorted(scanout.refs)
           /\ scanout.refs = scanout.out.res.val.refs

\* C17 witness: an archive whose members name hashB, then hashA (found
\* again with the second member, as the buffer keeps the first) was scanned,
\* inserted and hit
C17_Witness ==
    /\ ZipScanned /\ scanin.f.zip = "ok"
    /\ scanin.f.members = <<<<RefChunk(RefB1)>>, <<RefChunk(RefA1)>>>>
    /\ scanout.op = "looked" /\ scanout.kind = "Hit"
    /\ scanout.refs = <<RefA1, RefB1>>

C19_ShortFileNotMapped ==
    /\ (/\ scanin.op = "entry" /\ scanin.f.dent.ftype = "file"
        /\ scanin.f.dent.err = "none" /\ scanin.f.dent.metaok
        /\ ContentLen(scanin.f.content) < MIN_STOREREF_LEN
        /\ scanout.op # "none")
        => /\ ~scanout.out.mmap
           /\ scanout.out.res.ok
           /\ scanout.out.res.val.refs = <<>>
           /\ scanout.out.res.val.bytes_scanned = ContentLen(scanin.f.content)
    /\ (/\ scanin.op = "entry" /\ RegularScanned
        /\ ContentLen(scanin.f.content) = MIN_STOREREF_LEN
        /\ scanout.op # "none")
        => scanout.out.mmap

\* C20: a file matching an unzip glob that is not a readable archive makes
\* find_paths fail with a ZIP error, without the file being scanned as plain
\* data; the walk counts one soft error, does not abort and continues.
C20_BrokenZipIsSoftError ==
    (/\ scanin.op = "entry" /\ ZipScanned /\ scanin.f.openerr = "none"
     /\ scanin.f.zip # "ok")
    => /\ scanout.op # "none"
            => /\ ~scanout.out.res.ok
               /\ scanout.out.res.err.ty = "zip"
               /\ ~scanout.out.mmap
       /\ scanout.op \in {"entered", "looked"}
            => /\ scanout.soft = 1
               /\ ~scanout.abort
               /\ scanout.ws = "Continue"

\* C21: for a file that matches an unzip glob and is rejected by the ZIP
\* reader, find_paths returns Ok with the references a plain scan of all
\* its bytes finds.
C21_InvalidZipFallsBack ==
    (/\ scanin.op = "entry" /\ ZipScanned /\ scanin.f.openerr = "none"
     /\ scanin.f.zip = "none" /\ scanout.op # "none")
    => /\ scanout.out.res.ok
       /\ StrictlySorted(scanout.out.res.val.refs)
       /\ {scanout.out.res.val.refs[i] :
                i \in 1..Len(scanout.out.res.val.refs)}
            = {scanin.f.content[k].ref :
                k \in {n \in 1..Len(scanin.f.content) :
                         scanin.f.content[n].k = "ref"}}

\* C22: for a symlink whose metadata and target string can be read, only
\* the target string is matched: find_paths returns at most one reference,
\* the first one in the string, and bytes_scanned is the length of the
\* string; this is so for an existing, a dangling and a cyclic target, and
\* the entry then causes no soft error and no abort.
C22_SymlinkNotFollowed ==
    (/\ scanin.op = "entry" /\ scanin.f.dent.ftype = "symlink"
     /\ scanin.f.dent.metaok /\ scanin.f.openerr = "none"
     /\ scanout.op # "none")
    => LET caps == CapturesIter(scanin.f.content)
       IN /\ scanout.out.res.ok
          /\ ~scanout.out.mmap
          /\ Len(scanout.out.res.val.refs) <= 1
          /\ scanout.out.res.val.refs
                = (IF caps = <<>> THEN <<>> ELSE <<caps[1]>>)
          /\ scanout.out.res.val.bytes_scanned = ContentLen(scanin.f.content)
          /\ scanout.op \in {"entered", "looked"}
                => scanout.soft = 0 /\ ~scanout.abort

\* C22 witness: a dangling link whose target string names two store paths
\* went through the walk with the first of them as its only reference
C22_Witness ==
    /\ scanin.op = "entry" /\ scanin.f.dent.ftype = "symlink"
    /\ scanin.target = "dangling"
    /\ scanin.f.content = <<RefChunk(RefB1), RefChunk(RefA1)>>
    /\ scanout.op = "entered" /\ scanout.out.res.ok
    /\ scanout.out.res.val.refs = <<RefB1>>
    /\ scanout.soft = 0 /\ ~scanout.abort /\ scanout.ws = "Continue"

----------------------------------------------------------------------------
(* ExecutionContext (system.rs) and GCRoots::commit under it *)

\* The invoking user and group, and the owner and group of a set-id binary
RealUid == 1000
RealGid == 100
FileUid == 0
FileGid == 50

\* Credentials a process can start with: plain, set-uid, set-gid or both
StartCreds ==
    {[uid |-> RealUid, euid |-> eu, gid |-> RealGid, egid |-> eg] :
        eu \in {RealUid, FileUid}, eg \in {RealGid, FileGid}}

\* ExecutionContext::new (system.rs:21-30)
ExecutionContextNew(c) ==
    [is_suid |-> c.uid # c.euid, is_sgid |-> c.gid # c.egid,
     uid |-> c.uid, euid |-> c.euid, gid |-> c.gid, egid |-> c.egid]

\* seteuid / setegid: the kernel sets the effective id or refuses
Seteuid(c, id, allowed) ==
    IF allowed THEN [res |-> Ok("unit"), cred |-> [c EXCEPT !.euid = id]]
    ELSE [res |-> Err(MkErr("nix", "EPERM")), cred |-> c]
Setegid(c, id, allowed) ==
    IF allowed THEN [res |-> Ok("unit"), cred |-> [c EXCEPT !.egid = id]]
    ELSE [res |-> Err(MkErr("nix", "EPERM")), cred |-> c]

\* (mutant of drop_privileges: the effective gid is left as it is)
DropPrivilegesUidOnly(ctx, c, uok, gok) ==
    IF ctx.is_suid THEN Seteuid(c, ctx.uid, uok)
    ELSE [res |-> Ok("unit"), cred |-> c]

\* drop_privileges (system.rs:32-41); uok and gok tell whether the kernel
\* allows seteuid and setegid
DropPrivileges(ctx, c, uok, gok) ==
    LET u == IF ctx.is_suid THEN Seteuid(c, ctx.uid, uok)
             ELSE [res |-> Ok("unit"), cred |-> c]
    IN IF ~u.res.ok THEN u
       ELSE IF ctx.is_sgid THEN Setegid(u.cred, ctx.gid, gok)
       ELSE u

\* regain_privileges (system.rs:43-52)
RegainPrivileges(ctx, c, uok, gok) ==
    LET u == IF ctx.is_suid THEN Seteuid(c, ctx.euid, uok)
             ELSE [res |-> Ok("unit"), cred |-> c]
    IN IF ~u.res.ok THEN u
       ELSE IF ctx.is_sgid THEN Setegid(u.cred, ctx.egid, gok)
       ELSE u

\* What commit has to register in SpecPriv
PrivTodos ==
    {<<>>,
     <<RegSP("/start/f", <<RefA1>>)>>,
     <<RegSP("/start", <<RefA2>>), RegSP("/start/sub/f", <<RefA1, RefB1>>)>>}

\* The cache the walk returned: without a file, or on a new file with a
\* line inserted during the walk
PrivCaches ==
    {CacheNew(0),
     CacheInsert(CacheOpenFile(CacheNew(0), <<>>).val,
                 StorePathsNew(ScanDent("file", TRUE, "none"), <<RefA1>>, 1,
                               NoMeta)).cache}

\* The program has started; the walk is over and register_loop has returned
InitPriv ==
    /\ cache \in PrivCaches /\ disk = <<>> /\ cstage = "run" /\ nops = 0
    /\ clast = [op |-> "none"] /\ stored = NoStored /\ touched = {}
    /\ WalkIdle /\ SysIdle /\ ScanIdle
    /\ todo \in PrivTodos /\ rx = <<>> /\ rxopen = FALSE
    /\ links \in InitLinks
    /\ dirs = DirsOf(links) \cup {"/start"}
    /\ seen = {} /\ rstage = "loop" /\ rnext = 1
    /\ counts = [cleaned |-> 0, registered |-> 0]
    /\ links0 = links
    /\ cred \in StartCreds
    /\ ectx = ExecutionContextNew(cred)
    /\ pstage = [at |-> "start", cred0 |-> cred, res |-> Ok("unit")]
    /\ PipeIdle

\* with_dropped_privileges, first line (system.rs:60): an error of
\* drop_privileges is returned at once
PDrop ==
    /\ pstage.at = "start"
    /\ \E uok, gok \in BOOLEAN :
        LET d == DropPrivileges(ectx, cred, uok, gok)
        IN /\ cred' = d.cred
           /\ pstage' = IF d.res.ok THEN [pstage EXCEPT !.at = "dropped"]
                        ELSE [pstage EXCEPT !.at = "exit", !.res = d.res]
    /\ UNCHANGED <<cacheVars, walkVars, regVars, sysVars, scanVars, ectx, pipeVars>>

\* The closure of commit, first part (registry.rs:78-79)
PCleanup ==
    /\ pstage.at = "dropped" /\ rstage = "loop"
    /\ \E o \in Cleanup([links |-> links, dirs |-> dirs, seen |-> {}]) :
        /\ links' = o.st.links /\ dirs' = o.st.dirs /\ seen' = o.st.seen
        /\ rstage' = IF o.res.ok THEN "register" ELSE "failed"
        /\ counts' = IF o.res.ok THEN [counts EXCEPT !.cleaned = o.res.val]
                     ELSE counts
        /\ pstage' = IF o.res.ok THEN pstage
                     ELSE [pstage EXCEPT !.at = "closed", !.res = o.res]
    /\ UNCHANGED <<cacheVars, walkVars, todo, rx, rxopen, rnext, links0,
                   sysVars, scanVars, cred, ectx, pipeVars>>

\* The closure of commit, second part (registry.rs:80-84)
PRegister ==
    /\ pstage.at = "dropped" /\ rstage = "register" /\ rnext <= Len(todo)
    /\ \E failAt \in 0..Len(todo[rnext].refs) :
        LET o == Register([links |-> links, dirs |-> dirs, seen |-> seen],
                          todo[rnext], failAt)
        IN /\ links' = o.st.links /\ dirs' = o.st.dirs /\ seen' = o.st.seen
           /\ rstage' = IF o.res.ok THEN "register" ELSE "failed"
           /\ counts' = IF o.res.ok
                        THEN [counts EXCEPT !.registered = @ + o.res.val]
                        ELSE counts
           /\ pstage' = IF o.res.ok THEN pstage
                        ELSE [pstage EXCEPT !.at = "closed", !.res = o.res]
    /\ rnext' = rnext + 1
    /\ UNCHANGED <<cacheVars, walkVars, todo, rx, rxopen, links0, sysVars,
                   scanVars, cred, ectx, pipeVars>>

\* The closure returns Ok (registry.rs:97)
PClosureOk ==
    /\ pstage.at = "dropped" /\ rstage = "register" /\ rnext > Len(todo)
    /\ rstage' = "done"
    /\ pstage' = [pstage EXCEPT !.at = "closed"]
    /\ UNCHANGED <<cacheVars, walkVars, todo, rx, rxopen, links, dirs, seen,
                   rnext, counts, links0, sysVars, scanVars, cred, ectx, pipeVars>>

\* with_dropped_privileges, after the closure (system.rs:62-63): an error
\* of regain_privileges is returned instead of the closure's result
PRegain ==
    /\ pstage.at = "closed"
    /\ \E uok, gok \in BOOLEAN :
        LET g == RegainPrivileges(ectx, cred, uok, gok)
        IN /\ cred' = g.cred
           /\ pstage' = [pstage EXCEPT !.at = "exit",
                            !.res = IF g.res.ok THEN @ ELSE g.res]
    /\ UNCHANGED <<cacheVars, walkVars, regVars, sysVars, scanVars, ectx, pipeVars>>

\* spawn_threads after gcroots.commit returned Ok: the cache is committed
\* (walk.rs:119-123)
PCacheCommit ==
    /\ pstage.at = "exit" /\ pstage.res.ok
    /\ LET r == CacheCommit(cache)
       IN /\ cache' = r.cache
          /\ IF r.save THEN disk' \in CacheMapSave(r.cache.map)
             ELSE disk' = disk
    /\ pstage' = [pstage EXCEPT !.at = "done"]
    /\ UNCHANGED <<cstage, nops, clast, stored, touched, walkVars, regVars,
                   sysVars, scanVars, cred, ectx, pipeVars>>

NextPriv ==
    \/ PDrop
    \/ PCleanup
    \/ PRegister
    \/ PClosureOk
    \/ PRegain
    \/ PCacheCommit

SpecPriv == InitPriv /\ [][NextPriv]_vars

\* C28: whenever the registry commit has returned, with Ok, with an error
\* of cleanup or register, or with an error of dropping the privileges, the
\* effective uid and gid are those the process had before commit started.
C28_PrivilegesRestored ==
    pstage.at \in {"exit", "done"} =>
        /\ cred.euid = pstage.cred0.euid
        /\ cred.egid = pstage.cred0.egid

\* Some link or directory changes in this step
FsChanges == links' # links \/ dirs' # dirs

\* C29: the registry commit changes links and directories only while the
\* effective uid and gid are the real ones, and the closure of commit runs
\* only then; the credentials change in drop_privileges and
\* regain_privileges only; real uid and gid never change.
C29_ChangesUnprivileged ==
    /\ [][FsChanges => (cred.euid = cred.uid /\ cred.egid = cred.gid)]_vars
    /\ [](pstage.at \in {"dropped", "closed"} =>
            (cred.euid = cred.uid /\ cred.egid = cred.gid))
    /\ [][cred' # cred =>
            /\ pstage.at \in {"start", "closed"}
            /\ cred'.uid = cred.uid /\ cred'.gid = cred.gid]_vars

\* C29 witness: a set-uid and set-gid process made a link with the real
\* ids in effect and has its ids back
C29_Witness ==
    /\ pstage.at = "exit" /\ pstage.res.ok
    /\ ectx.is_suid /\ ectx.is_sgid
    /\ counts.registered > 0 /\ counts.cleaned > 0
    /\ cred.euid = FileUid /\ cred.egid = FileGid
====
